---- MODULE Spec2Model ----
(***************************************************************************)
(* The DSU (cemuhook) server of nso-gc-bridge, src/dsu_server.py, with the *)
(* controller pipelines of src/main.py and src/driver_final.py that feed   *)
(* it.  Packets are byte sequences (index i+1 holds the byte at Python     *)
(* offset i).  TLC's integers are 32-bit signed, so an unsigned 32-bit     *)
(* quantity is kept either as its four little-endian bytes (the CRC) or as *)
(* a pair <<high 16 bits, low 16 bits>> (message types, the counter).      *)
(***************************************************************************)
EXTENDS Integers, Sequences, FiniteSets, TLC

\* ------------------------------------------------------------------ bytes

\* b'\x00' * n
Zeros(n) == SubSeq([i \in 1..n |-> 0], 1, n)

\* data[a:b] of Python (clipped to the length of data)
Slice(data, a, b) ==
  LET hi == IF b < Len(data) THEN b ELSE Len(data)
  IN  IF hi <= a THEN <<>> ELSE SubSeq(data, a + 1, hi)

\* packet[off:off+len(bs)] = bs, and struct.pack_into at offset off (the
\* bytes written lie inside the buffer)
PackInto(packet, off, bs) ==
  SubSeq(packet, 1, off) \o bs \o SubSeq(packet, off + Len(bs) + 1, Len(packet))

\* The writes <<offset, bytes>> of a packet builder applied to the buffer in
\* the order the builder makes them
RECURSIVE WriteAll(_, _)
WriteAll(packet, writes) ==
  IF writes = <<>> THEN packet
  ELSE WriteAll(PackInto(packet, writes[1][1], writes[1][2]), Tail(writes))

\* struct.pack('<H', n)
PackU16(n) == <<n % 256, n \div 256>>

\* struct.pack('<I', v) of the value v[1] * 65536 + v[2]
PackU32(v) == <<v[2] % 256, v[2] \div 256, v[1] % 256, v[1] \div 256>>

\* struct.unpack('<I', bs)[0] as a pair of 16-bit halves
UnpackU32(bs) == <<bs[3] + 256 * bs[4], bs[1] + 256 * bs[2]>>

\* struct.pack_into('<I', ...) raises struct.error unless 0 <= v <= 2^32 - 1
FitsU32(v) == v[1] >= 0 /\ v[1] <= 65535

\* A faulty increment: the counter advances by two
IncrTwice(v) == IF v[2] >= 65534 THEN <<v[1] + 1, v[2] - 65534>> ELSE <<v[1], v[2] + 2>>

\* v + 1 on a Python int (unbounded), kept as <<high, low 16 bits>>
Incr(v) == IF v[2] = 65535 THEN <<v[1] + 1, 0>> ELSE <<v[1], v[2] + 1>>

\* ------------------------------------------------------------- zlib.crc32

RECURSIVE XorNat(_, _)
XorNat(a, b) ==
  IF a = 0 THEN b
  ELSE IF b = 0 THEN a
  ELSE ((a + b) % 2) + 2 * XorNat(a \div 2, b \div 2)

Xor4 == [a \in 0..15 |-> [b \in 0..15 |-> XorNat(a, b)]]

Xor8(a, b) == Xor4[a % 16][b % 16] + 16 * Xor4[a \div 16][b \div 16]

\* The reflected CRC-32 polynomial 0xEDB88320, little-endian bytes
CrcPoly == <<32, 131, 184, 237>>

\* c >> 1 on a 32-bit register held as four little-endian bytes
Shr1(c) ==
  << (c[1] \div 2) + 128 * (c[2] % 2),
     (c[2] \div 2) + 128 * (c[3] % 2),
     (c[3] \div 2) + 128 * (c[4] % 2),
     c[4] \div 2 >>

\* a ^ b on 32-bit registers
Xor32(a, b) == SubSeq([i \in 1..4 |-> Xor8(a[i], b[i])], 1, 4)

\* One shift of the bit-wise algorithm: (c >> 1) ^ poly if c is odd
CrcBit(c) == IF c[1] % 2 = 1 THEN Xor32(Shr1(c), CrcPoly) ELSE Shr1(c)

\* k shifts of the bit-wise algorithm on the register c
RECURSIVE CrcShift(_, _)
CrcShift(c, k) == IF k = 0 THEN c ELSE CrcBit(CrcShift(c, k - 1))

\* The 256-entry table of the byte-wise algorithm: eight shifts per entry
CrcTable == [n \in 0..255 |-> CrcShift(<<n, 0, 0, 0>>, 8)]

\* One step of the byte-wise algorithm: table[(c ^ byte) & 0xFF] ^ (c >> 8)
CrcStep(c, byte) ==
  Xor32(CrcTable[Xor8(c[1], byte)], <<c[2], c[3], c[4], 0>>)

\* The register after bytes lo..hi of data, one table step per byte in order.
\* The range is halved to keep the evaluation shallow; the choice from a
\* one-element set makes the left half's register a value before the right
\* half starts.
RECURSIVE CrcFold(_, _, _, _)
CrcFold(c, data, lo, hi) ==
  IF lo > hi THEN c
  ELSE IF lo = hi THEN CrcStep(c, data[lo])
  ELSE LET mid == (lo + hi) \div 2
       IN  CHOOSE r \in {CrcFold(m, data, mid + 1, hi) :
                            m \in {CrcFold(c, data, lo, mid)}} : TRUE

\* zlib.crc32(data) & 0xFFFFFFFF, as the four bytes struct.pack('<I', crc)
calculate_crc32(data) ==
  Xor32(CrcFold(<<255, 255, 255, 255>>, data, 1, Len(data)), <<255, 255, 255, 255>>)

\* A faulty CRC tail: the CRC covers the 20-byte header only
StampCrcOfHeader(packet) ==
  PackInto(packet, 8, calculate_crc32(PackInto(Slice(packet, 0, 20), 8, Zeros(4))))

\* The CRC tail shared by the three packet builders: zero bytes 8-11, take
\* the CRC of the whole buffer, restore the field, write the CRC into it.
StampCrc(packet) ==
  WriteAll(packet, <<
    <<8, Zeros(4)>>,
    <<8, Slice(packet, 8, 12)>>,
    <<8, calculate_crc32(PackInto(packet, 8, Zeros(4)))>> >>)

\* ------------------------------------------------------ protocol constants

PROTOCOL_VERSION == 1001
\* 0x00100000, 0x00100001, 0x00100002 as <<high, low>> 16-bit halves
PACKET_TYPE_VERSION == <<16, 0>>
PACKET_TYPE_PAD_INFO == <<16, 1>>
PACKET_TYPE_PAD_DATA == <<16, 2>>
\* b'DSUS' and b'DSUC'
MagicServer == <<68, 83, 85, 83>>
MagicClient == <<68, 83, 85, 67>>
\* DSUServer().server_id
DefaultServerId == <<0, 0>>

\* ------------------------------------------------------- controller state

\* The button names every decoder of main.py and driver_final.py produces
Buttons ==
  {"A", "B", "X", "Y", "L", "R", "Z", "ZL", "Start", "Home", "Capture",
   "Dpad_Up", "Dpad_Down", "Dpad_Left", "Dpad_Right"}

\* A decoded report.  buttons is the set of names the dict maps to True.
ControllerState(bs, mx, my, cx, cy, tl, tr) ==
  [buttons |-> bs,
   sticks |-> [main_x |-> mx, main_y |-> my, c_x |-> cx, c_y |-> cy],
   trigger_l |-> tl, trigger_r |-> tr]

\* What a pipeline hands to update(): main.py wraps the decoded report as
\* {'raw_bytes': ..., 'parsed': parsed}, driver_final.py passes parsed itself.
RawState(parsed) == [wrapped |-> TRUE, parsed |-> parsed]
LegacyState(parsed) == [wrapped |-> FALSE, parsed |-> parsed]

\* `parsed` of _create_pad_data_packet: state['parsed'] or the state itself
ParsedOf(state) == state.parsed

\* `btns` of update(): the buttons dict of state['parsed'] or of the state
UpdateButtons(state) == state.parsed.buttons

\* ------------------------------------------------------- pad data packet

\* buttons = parsed['buttons'].copy(); every pending press forced to True
LatchedButtons(parsed, pending) == parsed.buttons \cup pending

\* The bit each button sets in btns[0..3] (bytes 36-39): <<index, mask>>
ButtonBit ==
  [b \in Buttons |->
     CASE b = "Dpad_Up" -> <<0, 16>>
       [] b = "Dpad_Right" -> <<0, 32>>
       [] b = "Dpad_Down" -> <<0, 64>>
       [] b = "Dpad_Left" -> <<0, 128>>
       [] b = "Start" -> <<0, 8>>
       [] b = "Z" -> <<0, 4>>
       [] b = "X" -> <<1, 128>>
       [] b = "A" -> <<1, 64>>
       [] b = "B" -> <<1, 32>>
       [] b = "Y" -> <<1, 16>>
       [] b = "R" -> <<1, 8>>
       [] b = "L" -> <<1, 4>>
       [] b = "ZL" -> <<1, 1>>
       [] b = "Home" -> <<2, 1>>
       [] b = "Capture" -> <<3, 1>>]

RECURSIVE SumSet(_)
SumSet(S) == IF S = {} THEN 0 ELSE LET x == CHOOSE x \in S : TRUE
                                   IN  x + SumSet(S \ {x})

\* btns[k]: the OR of the masks of the pressed buttons of byte 36 + k
ButtonByte(buttons, k) ==
  SumSet({ButtonBit[b][2] : b \in {c \in buttons \cap Buttons : ButtonBit[c][1] = k}})

\* The analog shadows, bytes 44-53, in packet order
AnalogOrder == <<"Dpad_Left", "Dpad_Down", "Dpad_Right", "Dpad_Up",
                 "Y", "B", "A", "X", "R", "L">>
AnalogBytes(buttons) ==
  [i \in 1..10 |-> IF AnalogOrder[i] \in buttons THEN 255 ELSE 0]

\* a/d <= c/b for naturals a, c and positive d, b, without forming a product
RECURSIVE LeFrac(_, _, _, _)
LeFrac(a, d, c, b) ==
  LET qa == a \div d
      qc == c \div b
      ra == a % d
      rc == c % b
  IN  IF qa # qc THEN qa < qc
      ELSE IF ra = 0 THEN TRUE
      ELSE IF rc = 0 THEN FALSE
      ELSE LeFrac(b, rc, d, ra)

\* normalize_stick_pair(x, y, max_range=1400.0): the normalized x component
\* as the real number num / sqrt(densq).  Below the range the scale is
\* 1/1400; beyond it the magnitude is capped at 1 and the scale is 1/m.
normalize_stick_pair(x, y) ==
  LET magsq == x * x + y * y
  IN  IF magsq = 0 THEN [num |-> 0, densq |-> 1]
      ELSE IF magsq <= 1400 * 1400 THEN [num |-> x, densq |-> 1400 * 1400]
      ELSE [num |-> x, densq |-> magsq]

\* floor(127 * a / sqrt(densq)) for a natural a <= sqrt(densq)
ScaledFloor(a, densq) ==
  CHOOSE k \in 0..127 :
    /\ LeFrac(k * k, 16129, a * a, densq)
    /\ (k = 127 \/ ~LeFrac((k + 1) * (k + 1), 16129, a * a, densq))

\* ceil(127 * a / sqrt(densq)), given the floor fl
ScaledCeil(a, densq, fl) ==
  IF LeFrac(a * a, densq, fl * fl, 16129) THEN fl ELSE fl + 1

\* int(v * 127 + 128) & 0xFF for v = n / sqrt(densq): the sum lies in 1..255,
\* so int() is the floor.
ScaledByte(n, densq) ==
  IF n >= 0
  THEN (ScaledFloor(n, densq) + 128) % 256
  ELSE (128 - ScaledCeil(-n, densq, ScaledFloor(-n, densq))) % 256

\* stick_value_to_byte(sign * v) for the normalized component v
stick_value_to_byte(v, sign) == ScaledByte(sign * v.num, v.densq)

\* max(0, min(255, int(t))) & 0xFF
TriggerByte(t) == IF t < 0 THEN 0 ELSE IF t > 255 THEN 255 ELSE t

\* A faulty clear: the latch keeps its buttons
KeepLatch(pending) == pending

\* self.pending_presses.clear()
ClearLatch(pending) == {}

\* The fields _create_pad_data_packet writes after it has cleared the buffer
\* (lines 230-397), as <<offset, bytes>> in the order of its statements: the
\* header, the pad identity, the counter, the buttons, their analog shadows,
\* the sticks and the triggers
PadDataFields(parsed, buttons, pad_id, server_id, next_counter) ==
  <<<<0, MagicServer>>,
    <<4, PackU16(PROTOCOL_VERSION)>>,
    <<6, PackU16(84)>>,
    <<12, PackU32(server_id)>>,
    <<16, PackU32(PACKET_TYPE_PAD_DATA)>>,
    <<20, <<pad_id, 2, 2, 1>> >>,
    <<24, <<0, 17, 34, 51, 68, pad_id>> >>,
    <<30, <<5, 1>> >>,
    <<32, PackU32(next_counter)>>,
    <<36, [k \in 1..4 |-> ButtonByte(buttons, k - 1)]>>,
    <<44, AnalogBytes(buttons)>>,
    <<40, <<stick_value_to_byte(
              normalize_stick_pair(parsed.sticks.main_x, parsed.sticks.main_y), 1),
            stick_value_to_byte(
              normalize_stick_pair(parsed.sticks.main_y, parsed.sticks.main_x), -1),
            stick_value_to_byte(
              normalize_stick_pair(parsed.sticks.c_x, parsed.sticks.c_y), 1),
            stick_value_to_byte(
              normalize_stick_pair(parsed.sticks.c_y, parsed.sticks.c_x), -1)>> >>,
    <<54, <<TriggerByte(parsed.trigger_l), TriggerByte(parsed.trigger_r)>> >> >>

\* _create_pad_data_packet(state, pad_id) on a server whose latch is
\* `pending` and whose counter is `counter`.  The counter is
\* incremented before struct.pack_into('<I') packs it; a counter that no
\* longer fits makes pack_into raise struct.error, which leaves the method
\* before the CRC and before the latch is cleared.
create_pad_data_packet(state, pad_id, server_id, pending, counter) ==
  LET parsed == ParsedOf(state)
      buttons == LatchedButtons(parsed, pending)
      next_counter == Incr(counter)
  IN  IF FitsU32(next_counter)
      THEN [raised |-> FALSE,
            packet |-> StampCrc(WriteAll(Zeros(100),
                         PadDataFields(parsed, buttons, pad_id, server_id,
                                       next_counter))),
            packet_counter |-> next_counter,
            pending_presses |-> ClearLatch(pending)]
      ELSE [raised |-> TRUE, packet |-> <<>>,
            packet_counter |-> next_counter, pending_presses |-> pending]

\* ---------------------------------------------- pad info, version packets

\* The fields _create_pad_info_packet writes after it has cleared the buffer
\* (lines 151-171)
PadInfoFields(pad_id, connected, server_id) ==
  <<<<0, MagicServer>>,
    <<4, PackU16(PROTOCOL_VERSION)>>,
    <<6, PackU16(16)>>,
    <<12, PackU32(server_id)>>,
    <<16, PackU32(PACKET_TYPE_PAD_INFO)>>,
    <<20, <<pad_id, 2, 2, 1>> >>,
    <<24, <<0, 17, 34, 51, 68, pad_id>> >>,
    <<30, <<IF connected THEN 5 ELSE 0, 0>> >> >>

\* _create_pad_info_packet(pad_id, connected, server_id)
create_pad_info_packet(pad_id, connected, server_id) ==
  StampCrc(WriteAll(Zeros(32), PadInfoFields(pad_id, connected, server_id)))

\* A faulty _respond_version: the server's own id instead of the requester's
version_packet_own_id(data, server_id) ==
  StampCrc(WriteAll(Zeros(24), <<
    <<0, MagicServer>>,
    <<4, PackU16(PROTOCOL_VERSION)>>,
    <<6, PackU16(8)>>,
    <<12, PackU32(server_id)>>,
    <<16, PackU32(PACKET_TYPE_VERSION)>>,
    <<20, PackU16(PROTOCOL_VERSION)>>,
    <<22, <<0, 0>> >> >>))

\* The fields _respond_version writes after it has cleared the buffer (lines
\* 409-425)
VersionFields(data, server_id) ==
  <<<<0, MagicServer>>,
    <<4, PackU16(PROTOCOL_VERSION)>>,
    <<6, PackU16(8)>>,
    <<12, PackU32(IF Len(data) >= 16 THEN UnpackU32(Slice(data, 12, 16))
                  ELSE server_id)>>,
    <<16, PackU32(PACKET_TYPE_VERSION)>>,
    <<20, PackU16(PROTOCOL_VERSION)>>,
    <<22, <<0, 0>> >> >>

\* The packet _respond_version(data, addr) builds and sends to addr
version_packet(data, server_id) ==
  StampCrc(WriteAll(Zeros(24), VersionFields(data, server_id)))

\* slots_to_report of _respond_pad_info for a request of at least 24 bytes.
\* num_slots is a signed 32-bit count: a negative one gives an empty range,
\* one the datagram is too short for gives [0].
slots_to_report(data) ==
  LET negative == data[24] >= 128
      huge == data[23] # 0 \/ data[24] # 0
      num_slots == data[21] + 256 * data[22]
  IN  IF negative THEN <<>>
      ELSE IF huge \/ Len(data) < 24 + num_slots THEN <<0>>
      ELSE [i \in 1..num_slots |-> data[24 + i]]

\* The packets _respond_pad_info(data, addr) passes to sendto, in order
pad_info_packets(data, server_id) ==
  IF Len(data) >= 24
  THEN LET slots == slots_to_report(data)
           req_server_id ==
             IF Len(data) >= 16 THEN UnpackU32(Slice(data, 12, 16)) ELSE server_id
       IN  SubSeq([i \in 1..Len(slots) |->
                     create_pad_info_packet(slots[i], slots[i] = 0, req_server_id)],
                  1, Len(slots))
  ELSE <<>>

\* ------------------------------------------------- the reused buffers

\* packet[a:b] = bs on a bytearray: the bytes from a up to b give way to bs
SetSlice(packet, a, b, bs) ==
  SubSeq(packet, 1, a) \o bs \o SubSeq(packet, b + 1, Len(packet))

\* packet[:] = b'\x00' * n (lines 149, 228, 408)
Cleared(packet, n) == SetSlice(packet, 0, Len(packet), Zeros(n))

\* ---------------------------------------------------- client datagrams

\* The 20 bytes every DSU client message starts with
RequestHeader(magic, length, client_id, msg_type) ==
  magic \o PackU16(PROTOCOL_VERSION) \o PackU16(length) \o Zeros(4)
        \o PackU32(client_id) \o PackU32(msg_type)

VersionRequest(client_id) ==
  RequestHeader(MagicClient, 4, client_id, PACKET_TYPE_VERSION)

PadInfoRequest(client_id, slots) ==
  RequestHeader(MagicClient, 8 + Len(slots), client_id, PACKET_TYPE_PAD_INFO)
    \o <<Len(slots), 0, 0, 0>> \o slots

\* A Pad Info request cut short: the count field announces more slot ids
\* than the datagram carries
ShortPadInfoRequest(client_id, count, slots) ==
  RequestHeader(MagicClient, 8 + count, client_id, PACKET_TYPE_PAD_INFO)
    \o <<count, 0, 0, 0>> \o slots

\* flags, slot and MAC follow the header: 28 bytes
PadDataRequest(client_id) ==
  RequestHeader(MagicClient, 12, client_id, PACKET_TYPE_PAD_DATA) \o Zeros(8)

\* ------------------------------------------------------------- the bounds

\* Client addresses that send datagrams
NumClients == 2
\* Buttons of the vocabulary that the decoded reports press
NumButtons == 2
\* Pad Data constructions attempted in one run
MaxPackets == 3

\* ------------------------------------------------------------- the inputs

AddrNames == <<"c1", "c2", "c3", "c4">>
Addrs == {AddrNames[i] : i \in 1..NumClients}

ButtonOrder ==
  <<"A", "Home", "Dpad_Up", "Z", "B", "X", "Y", "L", "R", "ZL", "Start",
    "Capture", "Dpad_Down", "Dpad_Left", "Dpad_Right">>
ModelButtons == {ButtonOrder[i] : i \in 1..NumButtons}

\* The reports the pipelines decode: nothing pressed with the sticks at rest,
\* and each model button pressed alone with the sticks and triggers deflected
DecodedReports ==
  {ControllerState({}, 0, 0, 0, 0, 0, 0)}
  \cup {ControllerState({b}, 100, -700, 1500, 1500, 17, 255) : b \in ModelButtons}

ClientId == <<4660, 22136>>

\* A datagram of each kind handle_requests tells apart: the three requests,
\* a Pad Info request cut short, one too short, one with the server's magic,
\* one of an unknown type
Datagrams ==
  {VersionRequest(ClientId),
   PadInfoRequest(ClientId, <<0, 1>>),
   ShortPadInfoRequest(ClientId, 2, <<1>>),
   PadDataRequest(ClientId),
   Slice(PadDataRequest(ClientId), 0, 19),
   RequestHeader(MagicServer, 12, ClientId, PACKET_TYPE_PAD_DATA) \o Zeros(8),
   RequestHeader(MagicClient, 12, ClientId, <<16, 3>>) \o Zeros(8)}

\* -------------------------------------------------------------- the state

VARIABLES
  running,          \* DSUServer.running
  socket,           \* DSUServer.socket: "None" or "open"
  thread,           \* the handle_requests thread: "none", "recv" (blocked in
                    \* recvfrom), "ended" (left the loop), "crashed" (left
                    \* handle_requests by an uncaught exception)
  packet_counter,   \* DSUServer.packet_counter, <<high, low 16 bits>>
  last_state,       \* DSUServer.last_state: <<>> for None, else <<state>>
  pending_presses,  \* DSUServer.pending_presses
  clients,          \* the local set `clients` of handle_requests
  ev,               \* what the last step did (see Ev)
  owed,             \* buttons an update() reported pressed since the last
                    \* constructed Pad Data packet
  quiet,            \* packets constructed since the last update()
  updates,          \* update() calls that ran: 0, 1, or 2 for two or more
  built_counters,   \* bytes 32-35 of the last two constructed packets
  server_frame,     \* the server thread inside a Pad Data reply, statement
                    \* by statement (see ServerFrame)
  update_frame,     \* a pipeline thread inside update(), statement by
                    \* statement (see UpdateFrame)
  buffers,          \* DSUServer._pad_data_buffer, _version_buffer and
                    \* _pad_info_buffer: the bytes each bytearray holds
  port,             \* DSUServer.port
  occupied,         \* the ports other processes hold: bind raises OSError
  in_use_errno,     \* the errno of that OSError on this platform
  coordinator,      \* the MultiControllerDriver (see Coordinator)
  drivers,          \* the NSODriver / NSOWirelessDriver objects created, in
                    \* order of creation (see Driver)
  binds,            \* the DSUServer.start() calls, in order: the ports
                    \* tried and the value returned
  closes,           \* the socket.close() calls of DSUServer.stop(), in
                    \* order: the socket closed and the stop() that closed it
  link,             \* an NSOWirelessDriver inside _run_wireless_async (see
                    \* Link)
  calibration,      \* NSODriver.calibration (see Calibration)
  collector,        \* _ble_calibration_skip, _ble_calibration_samples and
                    \* the _apply_calibration threads (see Collector)
  current_state,    \* NSODriver.current_state: <<>> for None, else <<parsed>>
  note,             \* the last report a pipeline took in (see Note)
  report_id_offset, \* NSOWirelessDriver.report_id_offset
  usb,              \* an NSODriver inside start() (see Usb)
  stick             \* where the sticks of the controller are: the raw
                    \* values <<main_x, main_y, c_x, c_y>> its reports carry

history == <<owed, quiet, updates, built_counters>>
frames == <<server_frame, update_frame, buffers>>
fleet == <<port, occupied, in_use_errno, coordinator, drivers, binds, closes>>
pipe == <<link, calibration, collector, current_state, note,
          report_id_offset, usb, stick>>

vars == <<running, socket, thread, packet_counter, last_state, pending_presses,
          clients, ev, history, frames, fleet, pipe>>

None == <<>>

\* The record of a step: the operation, the pipeline or client address it
\* belongs to, the datagram received, the state a pipeline decoded, whether
\* update() ran, the Pad Data packet constructed (<<>> for none) and the
\* sendto calls made, in order, each [to, data, ok].
Ev(op, who, data, state, updated, built, sends) ==
  [op |-> op, who |-> who, data |-> data, state |-> state, updated |-> updated,
   built |-> built, sends |-> sends]

Send(to, data, ok) == [to |-> to, data |-> data, ok |-> ok]

Cap2(n) == IF n >= 2 THEN 2 ELSE n

\* The last two entries of a sequence
LastTwo(q) == IF Len(q) <= 2 THEN q ELSE <<q[Len(q) - 1], q[Len(q)]>>

\* The server thread between the statements of a Pad Data reply: pc is
\* "idle", "latch" (before line 219), "pack" (before line 267), "clear"
\* (before line 401) or "send" (before sendto); addr is the requester, state
\* the argument of _create_pad_data_packet, buttons its local `buttons`,
\* packet the bytes built.  In the push (pc "push") addr is the sequence of
\* the clients of clients.copy() the loop has not reached yet.
ServerFrame(pc, addr, state, buttons, packet) ==
  [pc |-> pc, addr |-> addr, state |-> state, buttons |-> buttons, packet |-> packet]

IdleServer == ServerFrame("idle", "", None, {}, <<>>)

\* A pipeline thread between the statements of update(): pc is "idle", "add"
\* (in the loop of lines 466-468) ; state is the argument, todo the pressed
\* buttons the loop has not reached yet.
UpdateFrame(pc, state, todo) == [pc |-> pc, state |-> state, todo |-> todo]

IdleUpdate == UpdateFrame("idle", None, {})

\* dsu_server.py lines 71-73: bytearray(100), bytearray(24), bytearray(32)
NoBuffers == [pad_data |-> Zeros(100), version |-> Zeros(24), pad_info |-> Zeros(32)]

DSU_PORT == 26760
DSU_PORT_MAX_ATTEMPTS == 5

\* errno.EADDRINUSE: 48 on macOS, 98 on Linux
EADDRINUSE_MACOS == 48
EADDRINUSE_LINUX == 98

\* A MultiControllerDriver: pc is "absent" (none was constructed), "new"
\* (constructed), "waiting" (start() in its wait loop), "returned" (start()
\* returned False), "stopping" (stop() in its loop over self.drivers, at
\* index `at`), "stopped" (stop() returned); dsu_server is FALSE for None;
\* drivers holds the indices into `drivers` of self.drivers; starts and stops
\* count the calls.
Coordinator(pc, slots_config, flag, server, list, at, starts, stops) ==
  [pc |-> pc, slots_config |-> slots_config, running |-> flag,
   dsu_server |-> server, drivers |-> list, at |-> at, starts |-> starts,
   stops |-> stops]

NoCoordinator == Coordinator("absent", <<>>, FALSE, FALSE, <<>>, 0, 0, 0)

\* An NSODriver or NSOWirelessDriver after __init__: type is "usb" or "ble";
\* dsu_server is FALSE for None; pc is the thread executing start(): "new"
\* (not called), "setup" (before `self.running = True`), "waiting" (in the
\* wait loop or, for BLE, joined on the connection thread), "returned",
\* "raised"; loop is the read thread or connection loop: "none", "running",
\* "ended"; passed is the state last given to dsu_server.update().
Driver(type, pad_id, owned, server) ==
  [type |-> type, dsu_pad_id |-> pad_id, dsu_owned |-> owned,
   dsu_server |-> server, running |-> FALSE, pc |-> "new", loop |-> "none",
   current_state |-> None, passed |-> None]

\* A DSUServer on its own: no driver, no coordinator, every port free
NoFleet ==
  /\ port = DSU_PORT
  /\ occupied = {}
  /\ in_use_errno = EADDRINUSE_MACOS
  /\ coordinator = NoCoordinator
  /\ drivers = <<>>
  /\ binds = <<>>
  /\ closes = <<>>

\* main.py line 28, in seconds
BLE_CONNECT_RETRY_SEC == 2

\* An NSOWirelessDriver and its connection loop. pc is the position of
\* _run_wireless_async: "new" (not started), "top" (the test of
\* `while self.running`, line 1208), "attempt" (inside one iteration, before
\* its outcome), "sleep" (inside asyncio.sleep(BLE_CONNECT_RETRY_SEC)),
\* "connected" (the inner `while self.running` of lines 1314 and 1379) or
\* "exited". running is self.running, address whether self.address is set,
\* up whether the radio link of the connected client is alive, lost whether
\* an established link went down, attempts the iterations started
\* (saturating), outcome how the last finished iteration ended, delay the
\* argument of the last asyncio.sleep of a failed iteration (0 for none) and
\* decoded the reports the handler decoded since the last start_notify of a
\* new client (saturating). "subscribing" is the position between two
\* start_notify calls of lines 1296-1297 and 1343-1344.
Link(pc, flag, address, up, lost, attempts, outcome, delay, decoded) ==
  [pc |-> pc, running |-> flag, address |-> address, up |-> up, lost |-> lost,
   attempts |-> attempts, outcome |-> outcome, delay |-> delay,
   decoded |-> decoded]

NoLink == Link("new", FALSE, FALSE, FALSE, FALSE, 0, "none", 0, 0)

\* self.calibration: the four centers (<<>> for None, else <<value>>) and
\* the flag
Calibration(main_x, main_y, c_x, c_y, flag) ==
  [main_x_center |-> main_x, main_y_center |-> main_y, c_x_center |-> c_x,
   c_y_center |-> c_y, calibrated |-> flag]

\* NSODriver.__init__, lines 147-153
NoCalibration == Calibration(None, None, None, None, FALSE)

\* main.py line 664
BLE_CALIBRATION_SKIP == 5

\* The deferred calibration of _notification_handler: skip is
\* _ble_calibration_skip, samples is _ble_calibration_samples as the number
\* of entries of each value (the list is only ever sorted), taken the
\* samples appended so far, seen their values, and tasks the
\* _apply_calibration threads started, in order, each with the medians of
\* its copy of the list and the number of its assignments done (0..5)
Collector(skip, samples, taken, seen, tasks) ==
  [skip |-> skip, samples |-> samples, taken |-> taken, seen |-> seen,
   tasks |-> tasks]

\* The last report a pipeline took in: the bytes, and whether an exception
\* left the read or notify path while it was handled
Note(data, raised) == [data |-> data, raised |-> raised]

\* An NSODriver inside start(). pc is "absent" (no USB driver), "new",
\* "initialize" (in initialize_usb), "open" (before open_hid_device),
\* "calibrate" (in the loop of calibrate_sticks), "server" (before the DSU
\* start), "read" (running is True and read_loop runs) or "returned"; writes
\* is the reports written to the USB endpoint, in order, reads the
\* hid_device.read calls made (saturating), left the iterations the loop of
\* calibrate_sticks still has to make, failed the report whose write raised
\* ("none" for none), running is self.running and returned the value
\* start() returned (<<>> while it has not returned).
Usb(pc, writes, reads, left, failed, flag, returned) ==
  [pc |-> pc, writes |-> writes, reads |-> reads, left |-> left,
   failed |-> failed, running |-> flag, returned |-> returned]

NoUsb == Usb("absent", <<>>, 0, 0, "none", FALSE, <<>>)

\* A controller whose sticks rest at the middle of the 12-bit range
AtRest == <<2048, 2048, 2048, 2048>>

\* No pipeline of its own beside the server
NoPipe ==
  /\ link = NoLink
  /\ calibration = NoCalibration
  /\ collector = Collector(BLE_CALIBRATION_SKIP, <<>>, 0, {}, <<>>)
  /\ current_state = None
  /\ note = Note(<<>>, FALSE)
  /\ report_id_offset = 0
  /\ usb = NoUsb
  /\ stick = AtRest

\* __init__
Init ==
  /\ running = FALSE
  /\ socket = "None"
  /\ thread = "none"
  /\ packet_counter = <<0, 0>>
  /\ last_state = None
  /\ pending_presses = {}
  /\ clients = {}
  /\ ev = Ev("init", "", <<>>, None, FALSE, <<>>, <<>>)
  /\ owed = {}
  /\ quiet = 0
  /\ updates = 0
  /\ built_counters = <<>>
  /\ server_frame = IdleServer
  /\ update_frame = IdleUpdate
  /\ buffers = NoBuffers
  /\ NoFleet
  /\ NoPipe

\* A server that has been running for 2^32 - 2 Pad Data constructions: the
\* counter is 2^32 - 2, a state is stored, the latch was cleared by the last
\* construction and the clients of that time are gone.
AgedCounter == <<65535, 65534>>

\* The buffers of that server: the Pad Data buffer holds the last packet
AgedBuffers ==
  [NoBuffers EXCEPT
     !.pad_data = create_pad_data_packet(
                    LegacyState(ControllerState({}, 0, 0, 0, 0, 0, 0)), 0,
                    DefaultServerId, {}, <<65535, 65533>>).packet]

InitAged ==
  /\ running = TRUE
  /\ socket = "open"
  /\ thread = "recv"
  /\ packet_counter = AgedCounter
  /\ last_state = <<LegacyState(ControllerState({}, 0, 0, 0, 0, 0, 0))>>
  /\ pending_presses = {}
  /\ clients = {}
  /\ ev = Ev("init", "", <<>>, None, FALSE, <<>>, <<>>)
  /\ owed = {}
  /\ quiet = 2
  /\ updates = 2
  /\ built_counters = <<PackU32(<<65535, 65533>>), PackU32(AgedCounter)>>
  /\ server_frame = IdleServer
  /\ update_frame = IdleUpdate
  /\ buffers = AgedBuffers
  /\ NoFleet
  /\ NoPipe

\* Constructions attempted since the initial state
Attempts ==
  IF packet_counter[1] = 0 THEN packet_counter[2]
  ELSE (packet_counter[1] - 65535) * 65536 + packet_counter[2] - AgedCounter[2]

CanBuild == Attempts < MaxPackets

\* ---------------------------------------------------------------- start, stop

\* start(), the bind succeeding: the socket is open, running is set and the
\* handler thread enters its loop and blocks in recvfrom
start ==
  /\ thread = "none" /\ ~running
  /\ running' = TRUE
  /\ socket' = "open"
  /\ thread' = "recv"
  /\ ev' = Ev("start", "", <<>>, None, FALSE, <<>>, <<>>)
  /\ UNCHANGED <<packet_counter, last_state, pending_presses, clients, history,
                 frames,
                 fleet, pipe>>

\* stop(), its first statement: running = False
stop_request ==
  /\ running
  /\ running' = FALSE
  /\ ev' = Ev("stop", "", <<>>, None, FALSE, <<>>, <<>>)
  /\ UNCHANGED <<socket, thread, packet_counter, last_state, pending_presses,
                 clients, history, frames,
                 fleet, pipe>>

\* stop(), after the join returned or timed out: the socket is closed
stop_close ==
  /\ ~running /\ socket = "open"
  /\ socket' = "None"
  /\ ev' = Ev("close", "", <<>>, None, FALSE, <<>>, <<>>)
  /\ UNCHANGED <<running, thread, packet_counter, last_state, pending_presses,
                 clients, history, frames,
                 fleet, pipe>>

\* recvfrom on the closed socket raises OSError: the handler breaks
recv_error ==
  /\ thread = "recv" /\ socket = "None"
  /\ thread' = "ended"
  /\ ev' = Ev("exit", "", <<>>, None, FALSE, <<>>, <<>>)
  /\ UNCHANGED <<running, socket, packet_counter, last_state, pending_presses,
                 clients, history, frames,
                 fleet, pipe>>

\* ------------------------------------------------------------- update()

\* A faulty update(): the state is stored, the latch is left as it was
update_without_latch(state, pending) ==
  [pending_presses |-> pending, last_state |-> <<state>>]

\* update(state): the latch takes every button the state reports pressed,
\* the state replaces the stored one
update(state, pending) ==
  [pending_presses |-> pending \cup UpdateButtons(state),
   last_state |-> <<state>>]

\* The parameters of update() besides self
UpdateParameters == {"state"}

\* A pipeline's call self.dsu_server.update(state, **keywords), made when
\* the server is running, inside try/except Exception: pass.  A keyword that
\* update() does not declare raises TypeError before the body runs.
CallUpdate(pipeline, parsed, state, keywords) ==
  LET runs == running /\ keywords \subseteq UpdateParameters
      u == update(state, pending_presses)
  IN  /\ pending_presses' = IF runs THEN u.pending_presses ELSE pending_presses
      /\ last_state' = IF runs THEN u.last_state ELSE last_state
      /\ owed' = IF runs THEN owed \cup parsed.buttons ELSE owed
      /\ quiet' = IF runs THEN 0 ELSE quiet
      /\ updates' = IF runs THEN Cap2(updates + 1) ELSE updates
      /\ ev' = Ev("decode", pipeline, <<>>, <<state>>, runs, <<>>, <<>>)
      /\ UNCHANGED <<running, socket, thread, packet_counter, clients,
                     built_counters, frames>>

\* driver_final.py, read_loop: a decoded report goes to update(parsed)
read_loop_final(parsed) ==
  /\ CallUpdate("usb_final", parsed, LegacyState(parsed), {})
  /\ UNCHANGED <<fleet, pipe>>

\* main.py, NSODriver.read_loop: update(raw_state, pad_id=..., connection_type=...)
read_loop(parsed) ==
  /\ CallUpdate("usb", parsed, RawState(parsed), {"pad_id", "connection_type"})
  /\ UNCHANGED <<fleet, pipe>>

\* main.py, NSOWirelessDriver._notification_handler: the same call
notification_handler(parsed) ==
  /\ CallUpdate("ble", parsed, RawState(parsed), {"pad_id", "connection_type"})
  /\ UNCHANGED <<fleet, pipe>>

\* ---------------------------------------------------- handle_requests

\* The packets of the run, built once: the counters a run passes through,
\* and create_pad_data_packet, _respond_version and _respond_pad_info applied
\* to every input of the model
CounterValues ==
  {<<0, n>> : n \in 0..MaxPackets}
  \cup {<<65535, 65534>>, <<65535, 65535>>}
  \cup {<<65536, n>> : n \in 0..MaxPackets}

StoredStates ==
  {LegacyState(r) : r \in DecodedReports} \cup {RawState(r) : r \in DecodedReports}

RECURSIVE SetToSeq(_)
SetToSeq(S) ==
  IF S = {} THEN <<>>
  ELSE LET x == CHOOSE x \in S : TRUE IN <<x>> \o SetToSeq(S \ {x})

StateSeq == SetToSeq(StoredStates)
PendingSeq == SetToSeq(SUBSET ModelButtons)
CounterSeq == SetToSeq(CounterValues)
DatagramSeq == SetToSeq(Datagrams)

\* The position of x in the sequence q
Index(q, x) == CHOOSE i \in 1..Len(q) : q[i] = x

PadDataTable ==
  LET np == Len(PendingSeq)
      nc == Len(CounterSeq)
      n == Len(StateSeq) * np * nc
  IN  SubSeq([i \in 1..n |->
                create_pad_data_packet(StateSeq[((i - 1) \div (np * nc)) + 1], 0,
                                       DefaultServerId,
                                       PendingSeq[(((i - 1) \div nc) % np) + 1],
                                       CounterSeq[((i - 1) % nc) + 1])], 1, n)

\* self._create_pad_data_packet(self.last_state, pad_id=0) in a server whose
\* latch is `pending` and whose counter is `counter`
PadData(state, pending, counter) ==
  PadDataTable[(Index(StateSeq, state) - 1) * Len(PendingSeq) * Len(CounterSeq)
               + (Index(PendingSeq, pending) - 1) * Len(CounterSeq)
               + Index(CounterSeq, counter)]

VersionReplyTable ==
  SubSeq([i \in 1..Len(DatagramSeq) |-> version_packet(DatagramSeq[i], DefaultServerId)],
         1, Len(DatagramSeq))

\* The packet _respond_version(data, addr) sends
VersionReply(data) == VersionReplyTable[Index(DatagramSeq, data)]

PadInfoRepliesTable ==
  SubSeq([i \in 1..Len(DatagramSeq) |-> pad_info_packets(DatagramSeq[i], DefaultServerId)],
         1, Len(DatagramSeq))

\* The packets _respond_pad_info(data, addr) sends, in order
PadInfoReplies(data) == PadInfoRepliesTable[Index(DatagramSeq, data)]

\* A faulty test: the magic is not looked at
IsLongMessage(data) == Len(data) >= 20

\* `data and len(data) >= 20` and the magic check of handle_requests
IsClientMessage(data) == Len(data) >= 20 /\ Slice(data, 0, 4) = MagicClient

\* struct.unpack('<I', data[16:20])[0]
MessageType(data) == UnpackU32(Slice(data, 16, 20))

\* The loop test `while self.running` after an iteration that neither broke
\* out nor raised: the thread blocks in recvfrom again or leaves the loop
NextIteration == IF running THEN "recv" ELSE "ended"

\* A faulty clients.add(addr): the sender is not recorded
ForgetClient(known, addr) == known

\* A faulty clients.add(addr): the first address is recorded with the sender
RegisterFirstToo(known, addr) == known \cup {addr, AddrNames[1]}

\* clients.add(addr)
RegisterClient(known, addr) == known \cup {addr}

\* A faulty push loop: it stops after the first client
PushToFirstOnly(known) ==
  IF known = {} THEN {} ELSE {CHOOSE c \in known : TRUE}

\* The clients the push loop passes to sendto: clients.copy()
PushTargets(known) == known

\* A Version request: _respond_version sends one packet; an OSError of
\* sendto reaches `except OSError: break`
handle_version(data, addr, ok) ==
  /\ thread = "recv" /\ socket = "open"
  /\ IsClientMessage(data) /\ MessageType(data) = PACKET_TYPE_VERSION
  /\ thread' = IF ok THEN NextIteration ELSE "ended"
  /\ ev' = Ev("request", addr, data, None, FALSE, <<>>,
              <<Send(addr, VersionReply(data), ok)>>)
  /\ UNCHANGED <<running, socket, packet_counter, last_state, pending_presses,
                 clients, history, frames,
                 fleet, pipe>>

\* A Pad Info request: _respond_pad_info sends one packet per reported slot
\* and swallows every exception; send number `fail` (0 for none) raises and
\* ends the replies
handle_pad_info(data, addr, fail) ==
  /\ thread = "recv" /\ socket = "open"
  /\ IsClientMessage(data) /\ MessageType(data) = PACKET_TYPE_PAD_INFO
  /\ LET packets == PadInfoReplies(data)
         n == IF fail = 0 THEN Len(packets) ELSE fail
     IN  /\ fail <= Len(packets)
         /\ ev' = Ev("request", addr, data, None, FALSE, <<>>,
                     SubSeq([i \in 1..n |-> Send(addr, packets[i], i # fail)], 1, n))
  /\ thread' = NextIteration
  /\ UNCHANGED <<running, socket, packet_counter, last_state, pending_presses,
                 clients, history, frames,
                 fleet, pipe>>

\* A Pad Data request: the sender joins `clients`; if a state is stored a
\* packet is constructed and sent to the sender.  struct.error from the
\* construction is swallowed by `except Exception: pass`; an OSError of
\* sendto reaches `except OSError: break`.
handle_pad_data(data, addr, ok) ==
  /\ thread = "recv" /\ socket = "open"
  /\ IsClientMessage(data) /\ MessageType(data) = PACKET_TYPE_PAD_DATA
  /\ clients' = RegisterClient(clients, addr)
  /\ IF last_state = None
     THEN /\ ok
          /\ thread' = NextIteration
          /\ ev' = Ev("request", addr, data, None, FALSE, <<>>, <<>>)
          /\ UNCHANGED <<packet_counter, pending_presses, history>>
     ELSE /\ CanBuild
          /\ LET r == PadData(last_state[1], pending_presses, packet_counter)
             IN  /\ packet_counter' = r.packet_counter
                 /\ pending_presses' = r.pending_presses
                 /\ IF r.raised
                    THEN /\ ok
                         /\ thread' = NextIteration
                         /\ ev' = Ev("request", addr, data, None, FALSE, <<>>, <<>>)
                         /\ UNCHANGED history
                    ELSE /\ thread' = IF ok THEN NextIteration ELSE "ended"
                         /\ ev' = Ev("request", addr, data, None, FALSE, r.packet,
                                     <<Send(addr, r.packet, ok)>>)
                         /\ owed' = {}
                         /\ quiet' = quiet + 1
                         /\ built_counters' =
                              LastTwo(Append(built_counters, Slice(r.packet, 32, 36)))
                         /\ UNCHANGED updates
  /\ UNCHANGED <<running, socket, last_state, frames,
                 fleet, pipe>>

\* Any other datagram: shorter than 20 bytes, another magic, an unknown type
handle_ignored(data, addr) ==
  /\ thread = "recv" /\ socket = "open"
  /\ ~(IsClientMessage(data)
       /\ MessageType(data) \in {PACKET_TYPE_VERSION, PACKET_TYPE_PAD_INFO,
                                 PACKET_TYPE_PAD_DATA})
  /\ thread' = NextIteration
  /\ ev' = Ev("request", addr, data, None, FALSE, <<>>, <<>>)
  /\ UNCHANGED <<running, socket, packet_counter, last_state, pending_presses,
                 clients, history, frames,
                 fleet, pipe>>

\* socket.timeout: the push.  The 5 ms the recvfrom waited exceed the 1 ms
\* update_interval, so the interval test passes on every timeout.  With a
\* state and a client one packet is constructed and sent to every client;
\* the clients in `failing` raise in sendto and are discarded.  An exception
\* of the construction is raised inside the except clause: no other clause
\* of the try statement catches it and it leaves handle_requests.
timeout(failing) ==
  /\ thread = "recv" /\ socket = "open"
  /\ failing \subseteq clients
  /\ IF last_state # None /\ clients # {}
     THEN /\ CanBuild
          /\ LET r == PadData(last_state[1], pending_presses, packet_counter)
                 order == SelectSeq(AddrNames, LAMBDA a : a \in PushTargets(clients))
             IN  /\ packet_counter' = r.packet_counter
                 /\ pending_presses' = r.pending_presses
                 /\ IF r.raised
                    THEN /\ failing = {}
                         /\ thread' = "crashed"
                         /\ ev' = Ev("timeout", "", <<>>, None, FALSE, <<>>, <<>>)
                         /\ UNCHANGED <<clients, history>>
                    ELSE /\ thread' = NextIteration
                         /\ clients' = clients \ failing
                         /\ ev' = Ev("timeout", "", <<>>, None, FALSE, r.packet,
                                     SubSeq([i \in 1..Len(order) |->
                                               Send(order[i], r.packet,
                                                    order[i] \notin failing)],
                                            1, Len(order)))
                         /\ owed' = {}
                         /\ quiet' = quiet + 1
                         /\ built_counters' =
                              LastTwo(Append(built_counters, Slice(r.packet, 32, 36)))
                         /\ UNCHANGED updates
     ELSE /\ failing = {}
          /\ thread' = NextIteration
          /\ ev' = Ev("timeout", "", <<>>, None, FALSE, <<>>, <<>>)
          /\ UNCHANGED <<packet_counter, pending_presses, clients, history>>
  /\ UNCHANGED <<running, socket, last_state, frames,
                 fleet, pipe>>

\* --------------------------------------------------------- specification

\* One iteration of the loop of handle_requests
HandlerStep ==
  \/ recv_error
  \/ \E data \in Datagrams, addr \in Addrs, ok \in BOOLEAN : handle_version(data, addr, ok)
  \/ \E data \in Datagrams, addr \in Addrs, fail \in 0..2 : handle_pad_info(data, addr, fail)
  \/ \E data \in Datagrams, addr \in Addrs, ok \in BOOLEAN : handle_pad_data(data, addr, ok)
  \/ \E data \in Datagrams, addr \in Addrs : handle_ignored(data, addr)
  \/ \E failing \in SUBSET Addrs : timeout(failing)

Next ==
  \/ start
  \/ stop_request
  \/ stop_close
  \/ recv_error
  \/ \E parsed \in DecodedReports : read_loop_final(parsed)
  \/ \E parsed \in DecodedReports : read_loop(parsed)
  \/ \E parsed \in DecodedReports : notification_handler(parsed)
  \/ \E data \in Datagrams, addr \in Addrs, ok \in BOOLEAN : handle_version(data, addr, ok)
  \/ \E data \in Datagrams, addr \in Addrs, fail \in 0..2 : handle_pad_info(data, addr, fail)
  \/ \E data \in Datagrams, addr \in Addrs, ok \in BOOLEAN : handle_pad_data(data, addr, ok)
  \/ \E data \in Datagrams, addr \in Addrs : handle_ignored(data, addr)
  \/ \E failing \in SUBSET Addrs : timeout(failing)

\* update() and the construction of a Pad Data packet each one atomic step
Spec == (Init \/ InitAged) /\ [][Next]_vars

\* The handler thread is a started daemon thread: while an iteration of its
\* loop is possible it takes one
FairSpec == Spec /\ WF_vars(HandlerStep)

\* ------------------------------- the two threads, statement by statement

\* A started server before any report or datagram
InitConc ==
  /\ running = TRUE
  /\ socket = "open"
  /\ thread = "recv"
  /\ packet_counter = <<0, 0>>
  /\ last_state = None
  /\ pending_presses = {}
  /\ clients = {}
  /\ ev = Ev("start", "", <<>>, None, FALSE, <<>>, <<>>)
  /\ owed = {}
  /\ quiet = 0
  /\ updates = 0
  /\ built_counters = <<>>
  /\ server_frame = IdleServer
  /\ update_frame = IdleUpdate
  /\ buffers = NoBuffers
  /\ NoFleet
  /\ NoPipe

\* driver_final.py read_loop calls update(parsed); update() reads the buttons
\* dict of its argument (lines 460-463)
update_enter(parsed) ==
  /\ running /\ update_frame.pc = "idle"
  /\ update_frame' = UpdateFrame("add", <<LegacyState(parsed)>>,
                                 UpdateButtons(LegacyState(parsed)))
  /\ ev' = Ev("decode", "usb_final", <<>>, <<LegacyState(parsed)>>, TRUE, <<>>, <<>>)
  /\ UNCHANGED <<running, socket, thread, packet_counter, last_state,
                 pending_presses, clients, history, server_frame, buffers,
                 fleet, pipe>>

\* One turn of the loop of update(): self.pending_presses.add(btn)
update_add(btn) ==
  /\ update_frame.pc = "add" /\ btn \in update_frame.todo
  /\ pending_presses' = pending_presses \cup {btn}
  /\ update_frame' = UpdateFrame("add", update_frame.state, update_frame.todo \ {btn})
  /\ UNCHANGED <<running, socket, thread, packet_counter, last_state, clients, ev,
                 history, server_frame, buffers,
                 fleet, pipe>>

\* The last statement of update(): self.last_state = state
update_store ==
  /\ update_frame.pc = "add" /\ update_frame.todo = {}
  /\ last_state' = update_frame.state
  /\ update_frame' = IdleUpdate
  /\ UNCHANGED <<running, socket, thread, packet_counter, pending_presses, clients,
                 ev, history, server_frame, buffers,
                 fleet, pipe>>

\* handle_requests receives a Pad Data request: clients.add(addr), and with a
\* stored state it enters _create_pad_data_packet(self.last_state, pad_id=0)
recv_pad_data(addr) ==
  /\ thread = "recv" /\ socket = "open" /\ server_frame.pc = "idle"
  /\ clients' = RegisterClient(clients, addr)
  /\ IF last_state = None
     THEN /\ thread' = NextIteration
          /\ UNCHANGED server_frame
     ELSE /\ CanBuild
          /\ server_frame' = ServerFrame("latch", addr, last_state, {}, <<>>)
          /\ UNCHANGED thread
  /\ UNCHANGED <<running, socket, packet_counter, last_state,
                 pending_presses, ev, history, update_frame, buffers,
                 fleet, pipe>>

\* Lines 215-220: buttons = parsed['buttons'].copy(), then every button of
\* list(self.pending_presses) is forced to True
create_latch ==
  /\ server_frame.pc = "latch"
  /\ server_frame' =
       ServerFrame("pack", server_frame.addr, server_frame.state,
                   LatchedButtons(ParsedOf(server_frame.state[1]), pending_presses),
                   <<>>)
  /\ UNCHANGED <<running, socket, thread, packet_counter, last_state,
                 pending_presses, clients, ev, history, update_frame, buffers,
                 fleet, pipe>>

\* Lines 222-397: the counter is incremented and the packet filled from the
\* local `buttons`, the sticks and the triggers, then the CRC
create_pack ==
  /\ server_frame.pc = "pack"
  /\ LET r == PadData(server_frame.state[1], server_frame.buttons, packet_counter)
     IN  /\ ~r.raised
         /\ packet_counter' = r.packet_counter
         /\ server_frame' =
              ServerFrame("clear", server_frame.addr, server_frame.state,
                          server_frame.buttons, r.packet)
  /\ UNCHANGED <<running, socket, thread, last_state, pending_presses, clients,
                 ev, history, update_frame, buffers,
                 fleet, pipe>>

\* Line 401: self.pending_presses.clear()
create_clear ==
  /\ server_frame.pc = "clear"
  /\ pending_presses' = ClearLatch(pending_presses)
  /\ server_frame' =
       ServerFrame("send", server_frame.addr, server_frame.state,
                   server_frame.buttons, server_frame.packet)
  /\ UNCHANGED <<running, socket, thread, packet_counter, last_state, clients, ev,
                 history, update_frame, buffers,
                 fleet, pipe>>

\* self.socket.sendto(packet, addr), then the next iteration of the loop
reply_sendto(ok) ==
  /\ server_frame.pc = "send" /\ socket = "open"
  /\ thread' = IF ok THEN NextIteration ELSE "ended"
  /\ ev' = Ev("request", server_frame.addr, PadDataRequest(ClientId), None, FALSE,
              server_frame.packet,
              <<Send(server_frame.addr, server_frame.packet, ok)>>)
  /\ server_frame' = IdleServer
  /\ UNCHANGED <<running, socket, packet_counter, last_state, pending_presses,
                 clients, history, update_frame, buffers,
                 fleet, pipe>>

NextConc ==
  \/ \E parsed \in DecodedReports : update_enter(parsed)
  \/ \E btn \in ModelButtons : update_add(btn)
  \/ update_store
  \/ \E addr \in Addrs : recv_pad_data(addr)
  \/ create_latch
  \/ create_pack
  \/ create_clear
  \/ \E ok \in BOOLEAN : reply_sendto(ok)

\* update() in a pipeline thread and the Pad Data reply in the server
\* thread, interleaved statement by statement; no lock is taken by either
SpecConc == InitConc /\ [][NextConc]_vars

\* ------------------------------------------- stop() against the handler

\* A faulty socket: sendto on the socket stop() has closed sends the packet
reply_after_close_sends ==
  /\ server_frame.pc = "send" /\ socket = "None"
  /\ thread' = NextIteration
  /\ ev' = Ev("request", server_frame.addr, PadDataRequest(ClientId), None, FALSE,
              server_frame.packet,
              <<Send(server_frame.addr, server_frame.packet, TRUE)>>)
  /\ server_frame' = IdleServer
  /\ UNCHANGED <<running, socket, packet_counter, last_state, pending_presses,
                 clients, history, update_frame, buffers,
                 fleet, pipe>>

\* self.socket.sendto(packet, addr) of the reply after stop() closed the
\* socket: OSError of the closed socket reaches `except OSError: break`,
\* AttributeError of self.socket = None reaches `except Exception: pass` and
\* the loop test finds running False
reply_after_close ==
  /\ server_frame.pc = "send" /\ socket = "None"
  /\ thread' = "ended"
  /\ ev' = Ev("request", server_frame.addr, PadDataRequest(ClientId), None, FALSE,
              server_frame.packet, <<>>)
  /\ server_frame' = IdleServer
  /\ UNCHANGED <<running, socket, packet_counter, last_state, pending_presses,
                 clients, history, update_frame, buffers,
                 fleet, pipe>>

\* socket.timeout with a state and a client: the packet of the push is
\* constructed (line 517); struct.error leaves handle_requests
push_enter ==
  /\ thread = "recv" /\ socket = "open" /\ server_frame.pc = "idle"
  /\ last_state # None /\ clients # {}
  /\ CanBuild
  /\ packet_counter' = PadData(last_state[1], pending_presses, packet_counter).packet_counter
  /\ pending_presses' = PadData(last_state[1], pending_presses, packet_counter).pending_presses
  /\ IF PadData(last_state[1], pending_presses, packet_counter).raised
     THEN /\ thread' = "crashed"
          /\ ev' = Ev("timeout", "", <<>>, None, FALSE, <<>>, <<>>)
          /\ UNCHANGED <<history, server_frame>>
     ELSE /\ server_frame' =
               ServerFrame("push",
                           SelectSeq(AddrNames, LAMBDA a : a \in PushTargets(clients)),
                           last_state, {},
                           PadData(last_state[1], pending_presses, packet_counter).packet)
          /\ ev' = Ev("timeout", "", <<>>, None, FALSE,
                      PadData(last_state[1], pending_presses, packet_counter).packet,
                      <<>>)
          /\ owed' = {}
          /\ quiet' = quiet + 1
          /\ built_counters' =
               LastTwo(Append(built_counters,
                              Slice(PadData(last_state[1], pending_presses,
                                            packet_counter).packet, 32, 36)))
          /\ UNCHANGED <<thread, updates>>
  /\ UNCHANGED <<running, socket, last_state, clients, update_frame, buffers,
                 fleet, pipe>>

\* One turn of the loop of lines 518-522: sendto to the next client; a
\* sendto that raises, as every sendto does once stop() has closed the
\* socket, discards the client.  After the last client the loop test.
push_sendto(ok) ==
  /\ server_frame.pc = "push"
  /\ socket = "None" => ~ok
  /\ ev' = IF ok \/ socket = "open"
           THEN [ev EXCEPT !.sends = Append(@, Send(Head(server_frame.addr),
                                                    server_frame.packet, ok))]
           ELSE ev
  /\ clients' = IF ok THEN clients ELSE clients \ {Head(server_frame.addr)}
  /\ IF Len(server_frame.addr) = 1
     THEN /\ server_frame' = IdleServer
          /\ thread' = NextIteration
     ELSE /\ server_frame' = [server_frame EXCEPT !.addr = Tail(@)]
          /\ UNCHANGED thread
  /\ UNCHANGED <<running, socket, packet_counter, last_state, pending_presses,
                 history, update_frame, buffers,
                 fleet, pipe>>

\* A running server, with or without a stored state, and the clients it
\* knows
InitStop ==
  /\ running = TRUE
  /\ socket = "open"
  /\ thread = "recv"
  /\ packet_counter = <<0, 0>>
  /\ last_state \in {None, <<LegacyState(ControllerState({}, 0, 0, 0, 0, 0, 0))>>}
  /\ pending_presses = {}
  /\ clients \in SUBSET Addrs
  /\ ev = Ev("start", "", <<>>, None, FALSE, <<>>, <<>>)
  /\ owed = {}
  /\ quiet = 0
  /\ updates = 0
  /\ built_counters = <<>>
  /\ server_frame = IdleServer
  /\ update_frame = IdleUpdate
  /\ buffers = NoBuffers
  /\ NoFleet
  /\ NoPipe

\* The steps of the handler thread: between iterations the handlers of
\* Spec that send at once, inside an iteration the statements of the Pad
\* Data reply and of the push
StopHandlerStep ==
  \/ server_frame.pc = "idle" /\ recv_error
  \/ /\ server_frame.pc = "idle"
     /\ \E data \in Datagrams, addr \in Addrs, ok \in BOOLEAN : handle_version(data, addr, ok)
  \/ /\ server_frame.pc = "idle"
     /\ \E data \in Datagrams, addr \in Addrs, fail \in 0..2 : handle_pad_info(data, addr, fail)
  \/ /\ server_frame.pc = "idle"
     /\ \E data \in Datagrams, addr \in Addrs : handle_ignored(data, addr)
  \/ /\ server_frame.pc = "idle" /\ ~(last_state # None /\ clients # {})
     /\ timeout({})
  \/ \E addr \in Addrs : recv_pad_data(addr)
  \/ create_latch
  \/ create_pack
  \/ create_clear
  \/ \E ok \in BOOLEAN : reply_sendto(ok)
  \/ reply_after_close
  \/ push_enter
  \/ \E ok \in BOOLEAN : push_sendto(ok)

NextStop ==
  \/ stop_request
  \/ stop_close
  \/ StopHandlerStep

\* stop() on a running server while the handler thread is anywhere in an
\* iteration of its loop
SpecStop == InitStop /\ [][NextStop]_vars

\* The handler thread is a started daemon thread and recvfrom returns or
\* times out after 5 ms: while a step of the thread is possible it takes one
FairSpecStop == SpecStop /\ WF_vars(StopHandlerStep)

\* ------------------------------------------- start() and its port fallback

\* DSUServer.start(): the loop over the ports.  bind raises OSError with the
\* platform's address-in-use errno on a port another process holds; the loop
\* goes on to the next port only when that errno is 48.  The result is the
\* value returned, self.port afterwards (`kept` when no bind succeeded) and
\* the ports tried.
RECURSIVE bind_attempts(_, _, _, _, _)
bind_attempts(attempt, taken, errno, kept, tried) ==
  IF attempt >= DSU_PORT_MAX_ATTEMPTS
  THEN [returned |-> FALSE, port |-> kept, tried |-> tried]
  ELSE IF DSU_PORT + attempt \notin taken
       THEN [returned |-> TRUE, port |-> DSU_PORT + attempt,
             tried |-> Append(tried, DSU_PORT + attempt)]
       ELSE IF errno # 48
            THEN [returned |-> FALSE, port |-> kept,
                  tried |-> Append(tried, DSU_PORT + attempt)]
            ELSE bind_attempts(attempt + 1, taken, errno, kept,
                               Append(tried, DSU_PORT + attempt))

\* start() of the server as the process finds the ports
StartResult == bind_attempts(0, occupied, in_use_errno, port, <<>>)

\* The sockets start() has bound so far
Opened == Cardinality({i \in 1..Len(binds) : binds[i].returned})

\* DSUServer.start(): on success the socket is bound, self.port is set,
\* running is set and the handler thread is started; on failure the socket is
\* closed and set to None and nothing else is touched
ServerStart ==
  /\ running' = IF StartResult.returned THEN TRUE ELSE running
  /\ socket' = IF StartResult.returned THEN "open" ELSE "None"
  /\ thread' = IF StartResult.returned THEN "recv" ELSE thread
  /\ port' = StartResult.port
  /\ binds' = Append(binds, [tried |-> StartResult.tried,
                             returned |-> StartResult.returned])

\* DSUServer.stop() called from the stop() of `by`: running is cleared, the
\* handler thread, which polls running every 5 ms, is joined, and the socket
\* is closed if there is one
ServerStop(by) ==
  /\ running' = FALSE
  /\ thread' = IF thread = "recv" THEN "ended" ELSE thread
  /\ socket' = "None"
  /\ closes' = IF socket = "open"
               THEN Append(closes, [socket |-> Opened, by |-> by])
               ELSE closes

\* ------------------------------------------------------------ the drivers

\* `self.dsu_server and self._dsu_owned` with every driver taken for the
\* owner of its server
owns_server_always(d) == d.dsu_server

\* `self.dsu_server and self._dsu_owned` (NSODriver), `self.dsu_server and
\* getattr(self, '_dsu_owned', True)` (NSOWirelessDriver)
owns_server(d) == d.dsu_server /\ d.dsu_owned

\* The variables of the datagram handler and of update()
data_plane == <<packet_counter, last_state, pending_presses, clients, ev,
                history, frames>>

\* start() of driver i fails before `self.running = True`: it returns False
\* (device not found, USB initialization or HID open failed, bleak missing)
\* or raises
driver_setup_fails(i, how) ==
  /\ drivers[i].pc = "setup"
  /\ drivers' = [drivers EXCEPT ![i].pc = how]
  /\ UNCHANGED <<running, socket, thread, data_plane, port, occupied, pipe,
                 in_use_errno, coordinator, binds, closes>>

\* A start() that gives up when its server cannot bind: it returns False
\* before running is set
driver_set_running_or_give_up(i) ==
  /\ drivers[i].pc = "setup"
  /\ IF owns_server(drivers[i])
     THEN /\ ServerStart
          /\ drivers' = IF StartResult.returned
                        THEN [drivers EXCEPT ![i].running = TRUE,
                                             ![i].loop = "running",
                                             ![i].pc = "waiting"]
                        ELSE [drivers EXCEPT ![i].pc = "returned"]
     ELSE /\ drivers' = [drivers EXCEPT
                           ![i].running = TRUE,
                           ![i].loop = "running",
                           ![i].pc = "waiting"]
          /\ UNCHANGED <<running, socket, thread, port, binds>>
  /\ UNCHANGED <<data_plane, occupied, pipe, in_use_errno, coordinator, closes>>

\* start() of driver i from the server start to the wait loop: a driver that
\* owns its server starts it and drops it when that fails; running is set;
\* the read thread (USB) or connection thread (BLE) is started
driver_set_running(i) ==
  /\ drivers[i].pc = "setup"
  /\ IF owns_server(drivers[i])
     THEN /\ ServerStart
          /\ drivers' = [drivers EXCEPT
                           ![i].dsu_server = StartResult.returned,
                           ![i].running = TRUE,
                           ![i].loop = "running",
                           ![i].pc = "waiting"]
     ELSE /\ drivers' = [drivers EXCEPT
                           ![i].running = TRUE,
                           ![i].loop = "running",
                           ![i].pc = "waiting"]
          /\ UNCHANGED <<running, socket, thread, port, binds>>
  /\ UNCHANGED <<data_plane, occupied, pipe, in_use_errno, coordinator, closes>>

\* The wait loop `while self.running: time.sleep(0.1)` of start() ends and
\* start() returns True
driver_wait_returns(i) ==
  /\ drivers[i].pc = "waiting" /\ ~drivers[i].running
  /\ drivers' = [drivers EXCEPT ![i].pc = "returned"]
  /\ UNCHANGED <<running, socket, thread, data_plane, port, occupied, pipe,
                 in_use_errno, coordinator, binds, closes>>

\* The read loop or the notification handler of driver i decodes a report:
\* current_state is set and, with a server that is running, update() is
\* called with the pad_id and connection_type keywords
pipeline_decode(i, parsed) ==
  /\ drivers[i].loop = "running" /\ drivers[i].running
  /\ IF drivers[i].dsu_server
     THEN CallUpdate(drivers[i].type, parsed, RawState(parsed),
                     {"pad_id", "connection_type"})
     ELSE /\ ev' = Ev("decode", drivers[i].type, <<>>, <<RawState(parsed)>>,
                      FALSE, <<>>, <<>>)
          /\ UNCHANGED <<running, socket, thread, packet_counter, last_state,
                         pending_presses, clients, history, frames>>
  /\ drivers' = [drivers EXCEPT
                   ![i].current_state = <<parsed>>,
                   ![i].passed = IF drivers[i].dsu_server /\ running
                                 THEN <<RawState(parsed)>> ELSE @]
  /\ UNCHANGED <<port, occupied, pipe, in_use_errno, coordinator, binds, closes>>

\* `while self.running` of the read loop or connection loop finds the flag
\* cleared
pipeline_loop_exit(i) ==
  /\ drivers[i].loop = "running" /\ ~drivers[i].running
  /\ drivers' = [drivers EXCEPT ![i].loop = "ended"]
  /\ UNCHANGED <<running, socket, thread, data_plane, port, occupied, pipe,
                 in_use_errno, coordinator, binds, closes>>

\* stop() of a driver: running is cleared and a server the driver owns is
\* stopped
DriverStop(i) ==
  IF owns_server(drivers[i])
  THEN ServerStop("pipeline")
  ELSE UNCHANGED <<running, socket, thread, closes>>

\* stop() of driver i called from its own wait loop (KeyboardInterrupt) or
\* by the window it drives
driver_stop(i) ==
  /\ drivers[i].pc = "waiting"
  /\ drivers' = [drivers EXCEPT ![i].running = FALSE]
  /\ DriverStop(i)
  /\ UNCHANGED <<data_plane, port, occupied, pipe, in_use_errno, coordinator, binds>>

\* ------------------------------------------------------ the coordinator

\* cfg.get(key, default) on a slot entry
CfgGet(cfg, key, default) == IF key \in DOMAIN cfg THEN cfg[key] ELSE default

\* _create_drivers: one NSODriver for every 'usb' entry and one
\* NSOWirelessDriver for every 'ble' entry, in the order of slots_config,
\* each given the coordinator's server and the entry's slot as dsu_pad_id;
\* entries of another type create nothing
create_drivers(slots_config, server) ==
  LET known == SelectSeq(slots_config,
                         LAMBDA cfg : CfgGet(cfg, "type", "usb") \in {"usb", "ble"})
  IN  [i \in 1..Len(known) |->
         Driver(CfgGet(known[i], "type", "usb"), CfgGet(known[i], "slot", 0),
                FALSE, server)]

\* The dsu_pad_id values of a list of drivers, in order
PadIds(list) == [i \in 1..Len(list) |-> list[i].dsu_pad_id]

\* The bounds of the run: entries of a slot list and drivers a coordinator
\* creates in all, start() and stop() calls on the coordinator
NumPipelines == 2
MaxStarts == 2
MaxStops == 2

\* The slot entries: slots inside and outside 0..3 or none, the two types
\* and an unknown one
ConfigEntries ==
  {[slot |-> 0, type |-> "usb"], [slot |-> 1, type |-> "ble"],
   [slot |-> 4, type |-> "usb"], [type |-> "ble"], [slot |-> 2, type |-> "hid"]}

\* The lists of at most NumPipelines entries
SlotConfigs ==
  UNION {[1..n -> ConfigEntries] : n \in 0..NumPipelines}

\* MultiControllerDriver.start(): the drivers are created; without drivers
\* it returns False; the server is started and dropped when that fails;
\* running is set and one thread per driver calls the driver's start()
coord_start ==
  /\ coordinator.pc \in {"new", "stopped"}
  /\ coordinator.starts < MaxStarts
  /\ Len(drivers) + Len(coordinator.slots_config) <= NumPipelines
  /\ LET made == create_drivers(coordinator.slots_config, coordinator.dsu_server)
     IN  IF coordinator.drivers = <<>> /\ made = <<>>
         THEN /\ coordinator' = [coordinator EXCEPT !.pc = "returned",
                                                    !.starts = @ + 1]
              /\ UNCHANGED <<running, socket, thread, port, binds, drivers>>
         ELSE /\ IF coordinator.dsu_server
                 THEN ServerStart
                 ELSE UNCHANGED <<running, socket, thread, port, binds>>
              /\ coordinator' =
                   [coordinator EXCEPT
                      !.pc = "waiting",
                      !.running = TRUE,
                      !.dsu_server = @ /\ StartResult.returned,
                      !.drivers = @ \o [i \in 1..Len(made) |-> Len(drivers) + i],
                      !.starts = @ + 1]
              /\ drivers' = drivers \o [i \in 1..Len(made) |->
                                          [made[i] EXCEPT !.pc = "setup"]]
  /\ UNCHANGED <<data_plane, occupied, pipe, in_use_errno, closes>>

\* MultiControllerDriver.stop(), its first statement
coord_stop_begin ==
  /\ coordinator.pc \in {"new", "waiting", "stopped"}
  /\ coordinator.stops < MaxStops
  /\ coordinator' = [coordinator EXCEPT !.pc = "stopping", !.running = FALSE,
                                        !.at = 1]
  /\ UNCHANGED <<running, socket, thread, data_plane, port, occupied, pipe,
                 in_use_errno, drivers, binds, closes>>

\* stop(), one turn of its loop: driver.running = False; driver.stop()
coord_stop_driver ==
  /\ coordinator.pc = "stopping"
  /\ coordinator.at <= Len(coordinator.drivers)
  /\ drivers' = [drivers EXCEPT ![coordinator.drivers[coordinator.at]].running = FALSE]
  /\ DriverStop(coordinator.drivers[coordinator.at])
  /\ coordinator' = [coordinator EXCEPT !.at = @ + 1]
  /\ UNCHANGED <<data_plane, port, occupied, pipe, in_use_errno, binds>>

\* stop(), after the loop: the server is stopped, the lists are cleared
coord_stop_end ==
  /\ coordinator.pc = "stopping"
  /\ coordinator.at > Len(coordinator.drivers)
  /\ IF coordinator.dsu_server
     THEN ServerStop("coordinator")
     ELSE UNCHANGED <<running, socket, thread, closes>>
  /\ coordinator' = [coordinator EXCEPT !.pc = "stopped", !.drivers = <<>>,
                                        !.at = 0, !.stops = @ + 1]
  /\ UNCHANGED <<data_plane, port, occupied, pipe, in_use_errno, drivers, binds>>

\* -------------------------------------------------- the fleet specification

\* The reports the drivers decode: nothing pressed, and the first button
FleetReports == {r \in DecodedReports : r.buttons \subseteq {ButtonOrder[1]}}

\* The ports of the fallback range
PortRange == {DSU_PORT + k : k \in 0..(DSU_PORT_MAX_ATTEMPTS - 1)}

\* The first k ports of the range, held by other processes
Held(k) == {DSU_PORT + j : j \in 0..(k - 1)}

\* One driver that owns its server (main() without --multi), its start()
\* called, on either platform with any number of the first ports held; or a
\* coordinator constructed with use_dsu over a slot list, with every port
\* free or every port held
InitFleet ==
  /\ running = FALSE
  /\ socket = "None"
  /\ thread = "none"
  /\ packet_counter = <<0, 0>>
  /\ last_state = None
  /\ pending_presses = {}
  /\ clients = {}
  /\ ev = Ev("init", "", <<>>, None, FALSE, <<>>, <<>>)
  /\ owed = {}
  /\ quiet = 0
  /\ updates = 0
  /\ built_counters = <<>>
  /\ server_frame = IdleServer
  /\ update_frame = IdleUpdate
  /\ buffers = NoBuffers
  /\ port = DSU_PORT
  /\ binds = <<>>
  /\ closes = <<>>
  /\ NoPipe
  /\ \/ /\ occupied \in {Held(k) : k \in 0..DSU_PORT_MAX_ATTEMPTS}
        /\ in_use_errno \in {EADDRINUSE_MACOS, EADDRINUSE_LINUX}
        /\ coordinator = NoCoordinator
        /\ \E type \in {"usb", "ble"} :
             drivers = <<[Driver(type, 0, TRUE, TRUE) EXCEPT !.pc = "setup"]>>
     \/ /\ occupied \in {{}, PortRange}
        /\ in_use_errno = EADDRINUSE_MACOS
        /\ \E slots_config \in SlotConfigs :
             coordinator = Coordinator("new", slots_config, FALSE, TRUE, <<>>, 0, 0, 0)
        /\ drivers = <<>>

NextFleet ==
  \/ \E i \in 1..Len(drivers), how \in {"returned", "raised"} : driver_setup_fails(i, how)
  \/ \E i \in 1..Len(drivers) : driver_set_running(i)
  \/ \E i \in 1..Len(drivers) : driver_wait_returns(i)
  \/ \E i \in 1..Len(drivers), parsed \in FleetReports : pipeline_decode(i, parsed)
  \/ \E i \in 1..Len(drivers) : pipeline_loop_exit(i)
  \/ \E i \in 1..Len(drivers) : driver_stop(i)
  \/ coord_start
  \/ coord_stop_begin
  \/ coord_stop_driver
  \/ coord_stop_end
  \/ handle_pad_data(PadDataRequest(ClientId), AddrNames[1], TRUE)

\* One driver with its own server, or a coordinator with its drivers and the
\* shared server, from construction on
SpecFleet == InitFleet /\ [][NextFleet]_vars

\* ------------------------------------- main.py: the BLE connection loop

\* The variables of the server, which no step of a connection loop touches
server == <<running, socket, thread, packet_counter, last_state,
            pending_presses, clients, ev, history, frames>>

MaxAttempts == 3

CapAttempts(n) == IF n >= MaxAttempts THEN MaxAttempts ELSE n

\* An exponential backoff in place of line 1389
retry_sleep_backoff(attempts) == BLE_CONNECT_RETRY_SEC * attempts

\* The argument of asyncio.sleep after a failed iteration (lines 1216, 1226,
\* 1280, 1389): the same constant whatever the number of iterations
retry_sleep(attempts) == BLE_CONNECT_RETRY_SEC

\* How an iteration fails without raising (lines 1215-1217, 1224-1227,
\* 1278-1281): each sleeps and continues
QuietFailures == {"no_scanner", "no_devices", "no_handshake"}

\* How an iteration fails by an exception that reaches line 1384: discover
\* or BleakClient.__aenter__ raising, and the RuntimeErrors of lines 1292,
\* 1337 and 1339
RaisedFailures == {"scan_raises", "connect_raises", "no_notify", "no_write"}

\* The failures possible without an address (lines 1211-1321) and with one
\* (lines 1322-1381)
Failures(address) ==
  IF address THEN {"connect_raises", "no_notify", "no_write"}
  ELSE QuietFailures \cup {"scan_raises", "no_notify"}

\* NSOWirelessDriver.start, lines 1418-1439: running = True and the thread of
\* run_ble
ble_start ==
  /\ link.pc = "new"
  /\ link' = [link EXCEPT !.pc = "top", !.running = TRUE]
  /\ UNCHANGED <<server, fleet, calibration, collector, current_state, note,
                 report_id_offset, usb, stick>>

\* line 1208: `while self.running`
ble_loop_top ==
  /\ link.pc = "top"
  /\ link' = IF link.running
             THEN [link EXCEPT !.pc = "attempt",
                               !.attempts = CapAttempts(link.attempts + 1)]
             ELSE [link EXCEPT !.pc = "exited"]
  /\ UNCHANGED <<server, fleet, calibration, collector, current_state, note,
                 report_id_offset, usb, stick>>

\* An iteration that fails. Without raising: sleep and continue. By an
\* exception: lines 1384-1389, break when running is False, else sleep. With
\* no address, a device that accepted the handshake has set self.address
\* (line 1269) before the RuntimeError of line 1292.
ble_attempt_fails(how) ==
  /\ link.pc = "attempt"
  /\ how \in Failures(link.address)
  /\ link' = IF how \in RaisedFailures /\ ~link.running
             THEN [link EXCEPT !.pc = "exited", !.outcome = how]
             ELSE [link EXCEPT !.pc = "sleep", !.outcome = how,
                               !.delay = retry_sleep(link.attempts),
                               !.address = link.address \/ how = "no_notify"]
  /\ UNCHANGED <<server, fleet, calibration, collector, current_state, note,
                 report_id_offset, usb, stick>>

\* asyncio.sleep(BLE_CONNECT_RETRY_SEC) returns; `continue` or the end of the
\* except clause lead to line 1208
ble_sleep_returns ==
  /\ link.pc = "sleep"
  /\ link' = [link EXCEPT !.pc = "top"]
  /\ UNCHANGED <<server, fleet, calibration, collector, current_state, note,
                 report_id_offset, usb, stick>>

\* An iteration that connects and subscribes: lines 1268-1313 or 1325-1378
ble_connects ==
  /\ link.pc = "attempt"
  /\ link' = [link EXCEPT !.pc = "connected", !.outcome = "connected",
                          !.address = TRUE, !.up = TRUE, !.decoded = 0]
  /\ UNCHANGED <<server, fleet, calibration, collector, current_state, note,
                 report_id_offset, usb, stick>>

\* The controller goes out of range or powers off. No disconnected_callback
\* is registered and the loop of lines 1314-1315 and 1379-1380 tests
\* self.running only: nothing in the coroutine observes the loss.
ble_connection_lost ==
  /\ link.pc = "connected"
  /\ link.up
  /\ link' = [link EXCEPT !.up = FALSE, !.lost = TRUE]
  /\ UNCHANGED <<server, fleet, calibration, collector, current_state, note,
                 report_id_offset, usb, stick>>

\* lines 1314-1321, 1379-1381: the inner loop ends when running is False,
\* the client is disconnected and `break` leaves the outer loop
ble_wait_ends ==
  /\ link.pc = "connected"
  /\ ~link.running
  /\ link' = [link EXCEPT !.pc = "exited", !.up = FALSE]
  /\ UNCHANGED <<server, fleet, calibration, collector, current_state, note,
                 report_id_offset, usb, stick>>

\* NSOWirelessDriver.stop, line 1484, of a driver without a server
ble_stop ==
  /\ link.pc # "new"
  /\ link.running
  /\ link' = [link EXCEPT !.running = FALSE]
  /\ UNCHANGED <<server, fleet, calibration, collector, current_state, note,
                 report_id_offset, usb, stick>>

\* The steps of the coroutine itself
BleLoopStep ==
  \/ ble_loop_top
  \/ \E how \in QuietFailures \cup RaisedFailures : ble_attempt_fails(how)
  \/ ble_sleep_returns
  \/ ble_connects
  \/ ble_wait_ends

\* An NSOWirelessDriver without a DSU server, constructed with or without
\* an address
InitBle ==
  /\ running = FALSE
  /\ socket = "None"
  /\ thread = "none"
  /\ packet_counter = <<0, 0>>
  /\ last_state = None
  /\ pending_presses = {}
  /\ clients = {}
  /\ ev = Ev("init", "", <<>>, None, FALSE, <<>>, <<>>)
  /\ owed = {}
  /\ quiet = 0
  /\ updates = 0
  /\ built_counters = <<>>
  /\ server_frame = IdleServer
  /\ update_frame = IdleUpdate
  /\ buffers = NoBuffers
  /\ NoFleet
  /\ calibration = NoCalibration
  /\ collector = Collector(BLE_CALIBRATION_SKIP, <<>>, 0, {}, <<>>)
  /\ current_state = None
  /\ note = Note(<<>>, FALSE)
  /\ report_id_offset = 0
  /\ usb = NoUsb
  /\ stick = AtRest
  /\ \E address \in BOOLEAN : link = [NoLink EXCEPT !.address = address]

NextBle ==
  \/ ble_start
  \/ ble_loop_top
  \/ \E how \in QuietFailures \cup RaisedFailures : ble_attempt_fails(how)
  \/ ble_sleep_returns
  \/ ble_connects
  \/ ble_connection_lost
  \/ ble_wait_ends
  \/ ble_stop

SpecBle == InitBle /\ [][NextBle]_vars

\* asyncio runs the coroutine on: a step of the loop that can be taken is
\* taken. Nothing obliges the controller to drop its link or the operator to
\* stop the driver.
FairSpecBle == SpecBle /\ WF_vars(BleLoopStep)

\* --------------------------------------------- main.py: the report decoders

\* data[i] of the source: the byte at index i, counted from 0
At(data, i) == data[i + 1]

\* (byte & mask) != 0 for a mask of one bit
Masked(byte, mask) == (byte \div mask) % 2 = 1

\* The names whose bit is set; bits is a set of <<name, index, mask>>
DecodeButtons(bits, data) ==
  {t[1] : t \in {u \in bits : Masked(At(data, u[2]), u[3])}}

\* parse_input without ble_layout, lines 326-343, for report_id_offset 0
UsbButtonBits ==
  {<<"B", 3, 1>>, <<"A", 3, 2>>, <<"Y", 3, 4>>, <<"X", 3, 8>>, <<"R", 3, 16>>,
   <<"Z", 3, 32>>, <<"Start", 3, 64>>,
   <<"Dpad_Down", 4, 1>>, <<"Dpad_Right", 4, 2>>, <<"Dpad_Left", 4, 4>>,
   <<"Dpad_Up", 4, 8>>, <<"L", 4, 16>>, <<"ZL", 4, 32>>,
   <<"Home", 5, 1>>, <<"Capture", 5, 2>>}

\* _parse_ble_nso, lines 838-845, on b3, b4, b5 = data[3], data[4], data[5]
NsoButtonBits ==
  {<<"Y", 3, 1>>, <<"X", 3, 2>>, <<"B", 3, 4>>, <<"A", 3, 8>>, <<"R", 3, 16>>,
   <<"Z", 3, 32>>,
   <<"Start", 4, 2>>, <<"Home", 4, 16>>, <<"Capture", 4, 32>>,
   <<"Dpad_Down", 5, 1>>, <<"Dpad_Up", 5, 2>>, <<"Dpad_Right", 5, 4>>,
   <<"Dpad_Left", 5, 8>>, <<"L", 5, 64>>, <<"ZL", 5, 128>>}

\* _parse_ble_blueretro: bit b of the little-endian uint32 at bytes 4-7
BlueRetroButtonBits ==
  {<<"Dpad_Left", 5, 1>>, <<"Dpad_Right", 5, 2>>, <<"Dpad_Down", 5, 4>>,
   <<"Dpad_Up", 5, 8>>,
   <<"B", 6, 1>>, <<"X", 6, 2>>, <<"A", 6, 4>>, <<"Y", 6, 8>>,
   <<"Start", 6, 16>>, <<"Home", 6, 64>>, <<"Capture", 6, 128>>,
   <<"ZL", 7, 2>>, <<"L", 7, 4>>, <<"Z", 7, 32>>, <<"R", 7, 64>>}

\* The same bits with every byte index moved by d
Shifted(bits, d) == {<<t[1], t[2] + d, t[3]>> : t \in bits}

\* The nibbles of the middle byte taken the other way round
stick_12bit_swapped_nibbles(b0, b1, b2) ==
  <<b0 + (b1 \div 16) * 256, (b1 % 16) + b2 * 16>>

\* _stick_12bit_from_bytes and the expressions of lines 373-380: two 12-bit
\* values from three nibble-packed bytes
stick_12bit_from_bytes(b0, b1, b2) ==
  <<b0 + (b1 % 16) * 256, (b1 \div 16) + b2 * 16>>

\* main_x_raw, main_y_raw, c_x_raw, c_y_raw from the six bytes at index i
RawSticks(data, i) ==
  stick_12bit_from_bytes(At(data, i), At(data, i + 1), At(data, i + 2))
  \o stick_12bit_from_bytes(At(data, i + 3), At(data, i + 4), At(data, i + 5))

\* line 392: the center assumed before calibration
DEFAULT_CENTER == 2048

\* lines 384-395: the raw values less the measured centers once calibrated,
\* less 2048 before
StickOffsets(raw, cal) ==
  IF cal.calibrated
  THEN <<raw[1] - cal.main_x_center[1], raw[2] - cal.main_y_center[1],
         raw[3] - cal.c_x_center[1], raw[4] - cal.c_y_center[1]>>
  ELSE [k \in 1..4 |-> raw[k] - DEFAULT_CENTER]

\* The dict a decoder returns: buttons as the set of names mapped to a true
\* value
Parsed(bs, raw, off, tl, tr) ==
  [buttons |-> bs,
   sticks |-> [main_x |-> off[1], main_y |-> off[2], c_x |-> off[3],
               c_y |-> off[4], main_x_raw |-> raw[1], main_y_raw |-> raw[2],
               c_x_raw |-> raw[3], c_y_raw |-> raw[4]],
   trigger_l |-> tl, trigger_r |-> tr]

\* `data[i] if len(data) > i else 0`
ByteOrZero(data, i) == IF Len(data) > i THEN At(data, i) ELSE 0

\* lines 864-866, 902-904: triggers both 0 are replaced by 255 for ZL and Z
DigitalTriggers(bs, tl, tr) ==
  IF tl = 0 /\ tr = 0
  THEN <<IF "ZL" \in bs THEN 255 ELSE 0, IF "Z" \in bs THEN 255 ELSE 0>>
  ELSE <<tl, tr>>

\* A parse_input that reads a short report as if zeros followed it
parse_input_padded(data, o, cal) ==
  LET padded == IF Len(data) < 16 THEN data \o Zeros(16 - Len(data)) ELSE data
      raw == RawSticks(padded, 6 + o)
  IN  <<Parsed(DecodeButtons(Shifted(UsbButtonBits, o), padded), raw,
               StickOffsets(raw, cal),
               ByteOrZero(padded, 13 + o), ByteOrZero(padded, 14 + o))>>

\* NSODriver.parse_input with ble_layout False: None (<<>>) for a report
\* shorter than 12 + o bytes, else <<parsed>>
parse_input(data, o, cal) ==
  IF Len(data) < 12 + o THEN None
  ELSE LET raw == RawSticks(data, 6 + o)
       IN  <<Parsed(DecodeButtons(Shifted(UsbButtonBits, o), data), raw,
                    StickOffsets(raw, cal),
                    ByteOrZero(data, 13 + o), ByteOrZero(data, 14 + o))>>

\* NSOWirelessDriver._parse_ble_nso: the stripped layout unless byte 0 is
\* 0x30
parse_ble_nso(data, cal) ==
  IF Len(data) < 11 THEN None
  ELSE IF At(data, 0) # 48
  THEN LET raw == RawSticks(data, 5)
           bs == DecodeButtons(Shifted(NsoButtonBits, -1), data)
           t == DigitalTriggers(bs, ByteOrZero(data, 13), ByteOrZero(data, 14))
       IN  <<Parsed(bs, raw, StickOffsets(raw, cal), t[1], t[2])>>
  ELSE IF Len(data) < 12 THEN None
  ELSE LET raw == RawSticks(data, 6)
           bs == DecodeButtons(NsoButtonBits, data)
           t == DigitalTriggers(bs, ByteOrZero(data, 14), ByteOrZero(data, 15))
       IN  <<Parsed(bs, raw, StickOffsets(raw, cal), t[1], t[2])>>

\* NSOWirelessDriver._parse_ble_63_discovered: the USB bits one byte earlier
parse_ble_63_discovered(data, cal) ==
  IF Len(data) < 11 THEN None
  ELSE LET raw == RawSticks(data, 5)
           bs == DecodeButtons(Shifted(UsbButtonBits, -1), data)
           t == DigitalTriggers(bs, ByteOrZero(data, 12), ByteOrZero(data, 13))
       IN  <<Parsed(bs, raw, StickOffsets(raw, cal), t[1], t[2])>>

\* NSOWirelessDriver._parse_ble_blueretro
parse_ble_blueretro(data, cal) ==
  IF Len(data) < 62 THEN None
  ELSE LET raw == RawSticks(data, 10)
       IN  <<Parsed(DecodeButtons(BlueRetroButtonBits, data), raw,
                    StickOffsets(raw, cal),
                    ByteOrZero(data, 60), ByteOrZero(data, 61))>>

\* _notification_handler, lines 970-978: the decoder chosen by the length,
\* and parse_input when it returned nothing
ble_decode(data, o, cal) ==
  LET first == IF Len(data) = 63 THEN parse_ble_63_discovered(data, cal)
               ELSE IF Len(data) >= 62 THEN parse_ble_blueretro(data, cal)
               ELSE parse_ble_nso(data, cal)
  IN  IF first # None THEN first ELSE parse_input(data, o, cal)

\* ------------------------------------------------ main.py: stick calibration

\* line 993: the samples the BLE median is taken over
BLE_CALIBRATION_SAMPLES == 50

\* line 255: num_samples, the reads calibrate_sticks makes
USB_CALIBRATION_READS == 10

\* line 279: the samples calibrate_sticks needs
USB_CALIBRATION_MIN == 3

\* samples.append(...): one more entry of value v
AddSample(samples, v) ==
  [x \in DOMAIN samples \cup {v} |->
     (IF x \in DOMAIN samples THEN samples[x] ELSE 0) + (IF x = v THEN 1 ELSE 0)]

\* The sum over the entries of the values in S of 1 (k = 0) or of axis k
RECURSIVE SumOf(_, _, _)
SumOf(samples, S, k) ==
  IF S = {} THEN 0
  ELSE LET v == CHOOSE v \in S : TRUE
       IN  samples[v] * (IF k = 0 THEN 1 ELSE v[k]) + SumOf(samples, S \ {v}, k)

\* len(samples)
Size(samples) == SumOf(samples, DOMAIN samples, 0)

\* median of lines 997-999: sorted(vals)[len(vals) // 2] for axis k
median(samples, k) ==
  LET at == Size(samples) \div 2
      below(x) == SumOf(samples, {v \in DOMAIN samples : v[k] < x}, 0)
      upto(x) == SumOf(samples, {v \in DOMAIN samples : v[k] <= x}, 0)
  IN  CHOOSE x \in {v[k] : v \in DOMAIN samples} : below(x) <= at /\ at < upto(x)

\* lines 283-286: int(sum(...) / len(samples)) for axis k
mean(samples, k) == SumOf(samples, DOMAIN samples, k) \div Size(samples)

\* A thread of _apply_calibration: the four medians of its copy of the list
\* and the assignments of lines 1001-1005 it has made
Task(samples) == [centers |-> [k \in 1..4 |-> median(samples, k)], pc |-> 0]

MaxTasks == 2

\* lines 984-1008: the skip counter, the append, and at 50 entries the copy,
\* the clear and the thread
collect(c, raw) ==
  IF c.skip > 0 THEN [c EXCEPT !.skip = c.skip - 1]
  ELSE LET samples == AddSample(c.samples, raw)
           taken == IF c.taken >= BLE_CALIBRATION_SAMPLES THEN c.taken
                    ELSE c.taken + 1
           seen == c.seen \cup {raw}
       IN  IF Size(samples) >= BLE_CALIBRATION_SAMPLES
           THEN Collector(0, <<>>, taken, seen, Append(c.tasks, Task(samples)))
           ELSE Collector(0, samples, taken, seen, c.tasks)

\* The raw values of a decoded report, as the handler reads them from
\* parsed['sticks']
RawOf(parsed) ==
  <<parsed.sticks.main_x_raw, parsed.sticks.main_y_raw, parsed.sticks.c_x_raw,
    parsed.sticks.c_y_raw>>

\* The highest index the decoders of a notification read without a test of
\* the length before it (-1 when they read none): an index outside the
\* report raises IndexError, which nothing in the handler catches
decode_reach(data, o) ==
  LET fallback == IF Len(data) < 12 + o THEN -1 ELSE 11 + o
  IN  IF Len(data) = 63 THEN 10
      ELSE IF Len(data) >= 62 THEN 15
      ELSE IF Len(data) < 11 THEN fallback
      ELSE IF At(data, 0) # 48 THEN 10
      ELSE IF Len(data) < 12 THEN fallback
      ELSE 11

\* The reports decoded on a connection are counted up to one past those a
\* calibration takes
CapDecoded(n) ==
  IF n > BLE_CALIBRATION_SKIP + BLE_CALIBRATION_SAMPLES
  THEN BLE_CALIBRATION_SKIP + BLE_CALIBRATION_SAMPLES + 1
  ELSE n

\* NSOWirelessDriver._notification_handler on the bytes of one notification:
\* decode, return on None, else the deferred calibration, current_state and
\* the update call. A run is followed until MaxTasks threads were started
\* with calibrated still False.
ble_notification(data) ==
  /\ link.pc \in {"subscribing", "connected"} /\ link.up
  /\ LET parsed == ble_decode(data, report_id_offset, calibration)
     IN  IF decode_reach(data, report_id_offset) >= Len(data)
         THEN /\ note' = Note(data, TRUE)
              /\ UNCHANGED <<server, link, collector, current_state>>
         ELSE IF parsed = None
         THEN /\ note' = Note(data, FALSE)
              /\ UNCHANGED <<server, link, collector, current_state>>
         ELSE /\ note' = Note(data, FALSE)
              /\ link' = [link EXCEPT !.decoded = CapDecoded(@ + 1)]
              /\ collector' = IF calibration.calibrated THEN collector
                              ELSE collect(collector, RawOf(parsed[1]))
              /\ calibration.calibrated \/ Len(collector.tasks) < MaxTasks
              /\ current_state' = parsed
              /\ CallUpdate("ble", parsed[1], RawState(parsed[1]),
                            {"pad_id", "connection_type"})
  /\ UNCHANGED <<fleet, calibration, report_id_offset, usb, stick>>

\* A faulty _apply_calibration: calibrated = True is its first assignment,
\* the four centers follow
apply_calibration_flag_first(i) ==
  /\ i \in 1..Len(collector.tasks)
  /\ collector.tasks[i].pc < 5
  /\ LET t == collector.tasks[i]
         c == <<t.centers[IF t.pc = 0 THEN 1 ELSE t.pc]>>
     IN  calibration' =
           CASE t.pc = 0 -> [calibration EXCEPT !.calibrated = TRUE]
             [] t.pc = 1 -> [calibration EXCEPT !.main_x_center = c]
             [] t.pc = 2 -> [calibration EXCEPT !.main_y_center = c]
             [] t.pc = 3 -> [calibration EXCEPT !.c_x_center = c]
             [] t.pc = 4 -> [calibration EXCEPT !.c_y_center = c]
  /\ collector' = [collector EXCEPT !.tasks[i].pc = @ + 1]
  /\ UNCHANGED <<server, fleet, link, current_state, note, report_id_offset,
                 usb, stick>>

\* One assignment of a thread of _apply_calibration, lines 1001-1005: the
\* four centers, then calibrated = True
apply_calibration(i) ==
  /\ i \in 1..Len(collector.tasks)
  /\ collector.tasks[i].pc < 5
  /\ LET t == collector.tasks[i]
         c == <<t.centers[t.pc + 1]>>
     IN  calibration' =
           CASE t.pc = 0 -> [calibration EXCEPT !.main_x_center = c]
             [] t.pc = 1 -> [calibration EXCEPT !.main_y_center = c]
             [] t.pc = 2 -> [calibration EXCEPT !.c_x_center = c]
             [] t.pc = 3 -> [calibration EXCEPT !.c_y_center = c]
             [] t.pc = 4 -> [calibration EXCEPT !.calibrated = TRUE]
  /\ collector' = [collector EXCEPT !.tasks[i].pc = @ + 1]
  /\ UNCHANGED <<server, fleet, link, current_state, note, report_id_offset,
                 usb, stick>>

\* ------------------------------------------------ main.py: NSODriver.start

\* lines 102-110: the two 16-byte initialization reports
DEFAULT_REPORT_DATA ==
  <<3, 145, 0, 13, 0, 8, 0, 0, 1, 0, 255, 255, 255, 255, 255, 255>>
SET_LED_DATA ==
  <<9, 145, 0, 7, 0, 8, 0, 0, 1, 0, 0, 0, 0, 0, 0, 0>>

MaxReads == 2

CapReads(n) == IF n >= MaxReads THEN MaxReads ELSE n

\* The three bytes a controller packs two 12-bit values into, as lines
\* 363-368 describe the layout
StickBytes(x, y) == <<x % 256, (x \div 256) + (y % 16) * 16, y \div 16>>

\* A report of n zero bytes with the sticks of the controller at index i
ReportAt(n, i, raw) ==
  PackInto(Zeros(n), i,
           StickBytes(raw[1], raw[2]) \o StickBytes(raw[3], raw[4]))

\* What hid_device.read(64) returns for a controller whose sticks are at
\* raw: nothing (non-blocking read), a report cut short, the report of 12
\* or more bytes, that report with A held
HidReports(raw) ==
  {<<>>, Zeros(5), SubSeq(ReportAt(16, 6, raw), 1, 11),
   SubSeq(ReportAt(16, 6, raw), 1, 12), ReportAt(16, 6, raw),
   PackInto(ReportAt(16, 6, raw), 3, <<2>>)}

\* NSODriver.start, lines 556-564: find_usb_device returns False
usb_find_fails ==
  /\ usb.pc = "new"
  /\ usb' = [usb EXCEPT !.pc = "returned", !.returned = <<FALSE>>]
  /\ UNCHANGED <<server, fleet, link, calibration, collector, current_state,
                 note, report_id_offset, stick>>

\* find_usb_device returns True
usb_find ==
  /\ usb.pc = "new"
  /\ usb' = [usb EXCEPT !.pc = "initialize"]
  /\ UNCHANGED <<server, fleet, link, calibration, collector, current_state,
                 note, report_id_offset, stick>>

\* The order of the writes
InitReportsLedFirst == <<SET_LED_DATA, DEFAULT_REPORT_DATA>>

\* initialize_usb: the reports in the order it writes them
InitReports == <<DEFAULT_REPORT_DATA, SET_LED_DATA>>

\* initialize_usb, one usb_device.write: it returns, or raises and
\* initialize_usb returns False, and so does start() (line 568)
usb_write(ok) ==
  /\ usb.pc = "initialize"
  /\ LET report == InitReports[Len(usb.writes) + 1]
     IN  usb' = IF ok
                THEN [usb EXCEPT !.writes = Append(usb.writes, report),
                                 !.pc = IF Len(usb.writes) = 1 THEN "open"
                                        ELSE "initialize"]
                ELSE [usb EXCEPT !.failed = "write", !.pc = "returned",
                                 !.returned = <<FALSE>>]
  /\ UNCHANGED <<server, fleet, link, calibration, collector, current_state,
                 note, report_id_offset, stick>>

\* open_hid_device, lines 572-574; calibrate_sticks begins with an empty
\* list (line 261)
usb_open(ok) ==
  /\ usb.pc = "open"
  /\ usb' = IF ok THEN [usb EXCEPT !.pc = "calibrate",
                                   !.left = USB_CALIBRATION_READS]
            ELSE [usb EXCEPT !.pc = "returned", !.returned = <<FALSE>>]
  /\ UNCHANGED <<server, fleet, link, calibration, collector, current_state,
                 note, report_id_offset, stick>>

\* calibrate_sticks, one iteration of lines 264-276: a read that raises or
\* returns fewer than 12 bytes adds no sample
usb_calibrate_read(raises, data) ==
  /\ usb.pc = "calibrate"
  /\ usb.left > 0
  /\ usb' = [usb EXCEPT !.left = usb.left - 1, !.reads = CapReads(usb.reads + 1)]
  /\ collector' =
       IF ~raises /\ Len(data) >= 12
       THEN [collector EXCEPT !.samples = AddSample(collector.samples, RawSticks(data, 6)),
                              !.taken = collector.taken + 1,
                              !.seen = collector.seen \cup {RawSticks(data, 6)}]
       ELSE collector
  /\ UNCHANGED <<server, fleet, link, calibration, current_state, note,
                 report_id_offset, stick>>

\* calibrate_sticks after the loop, lines 278-292, and start() up to
\* self.running = True (line 586) for a driver that does not own a server
usb_calibrate_end ==
  /\ usb.pc = "calibrate"
  /\ usb.left = 0
  /\ calibration' =
       IF Size(collector.samples) < USB_CALIBRATION_MIN THEN calibration
       ELSE Calibration(<<mean(collector.samples, 1)>>, <<mean(collector.samples, 2)>>,
                        <<mean(collector.samples, 3)>>, <<mean(collector.samples, 4)>>,
                        TRUE)
  /\ usb' = [usb EXCEPT !.pc = "read", !.running = TRUE]
  /\ UNCHANGED <<server, fleet, link, collector, current_state, note,
                 report_id_offset, stick>>

\* read_loop, one iteration: the read raises (caught at line 545), returns
\* nothing, or returns a report that parse_input decodes or not
usb_read(raises, data) ==
  /\ usb.pc = "read"
  /\ usb.running
  /\ usb' = [usb EXCEPT !.reads = CapReads(usb.reads + 1)]
  /\ LET parsed == parse_input(data, 0, calibration)
     IN  IF raises \/ data = <<>>
         THEN UNCHANGED <<server, current_state, note>>
         ELSE IF parsed = None
         THEN /\ note' = Note(data, FALSE)
              /\ UNCHANGED <<server, current_state>>
         ELSE /\ note' = Note(data, FALSE)
              /\ current_state' = parsed
              /\ CallUpdate("usb", parsed[1], RawState(parsed[1]),
                            {"pad_id", "connection_type"})
  /\ UNCHANGED <<fleet, link, calibration, collector, report_id_offset, stick>>

\* NSODriver.stop, line 636: read_loop and the wait of start() end, and
\* start() returns True (line 632)
usb_stop ==
  /\ usb.pc = "read"
  /\ usb.running
  /\ usb' = [usb EXCEPT !.running = FALSE, !.pc = "returned",
                        !.returned = <<TRUE>>]
  /\ UNCHANGED <<server, fleet, link, calibration, collector, current_state,
                 note, report_id_offset, stick>>

\* ---------------------------------------------- one pipeline and its reports

\* Where the sticks of a controller lie still: off the middle of the range,
\* and at its ends
Positions ==
  <<<<2100, 1990, 2048, 2060>>, <<2040, 2060, 2049, 2047>>, <<0, 4095, 1, 4094>>>>

\* The notifications a controller sends with its sticks at raw: one of 10
\* bytes, one of 11 bytes that begins with 0x30, and the stripped report of
\* 16 bytes
BleReports(raw) ==
  {Zeros(10), <<48>> \o Zeros(10), ReportAt(16, 5, raw)}

\* The player lets the sticks settle somewhere else, once
stick_moves ==
  /\ stick = Positions[1]
  /\ stick' = Positions[2]
  /\ UNCHANGED <<server, fleet, link, calibration, collector, current_state,
                 note, report_id_offset, usb>>

\* A running server that holds no state yet, and either an NSOWirelessDriver
\* connected and subscribed or an NSODriver about to start; the driver does
\* not own the server
InitPipe ==
  /\ running = TRUE
  /\ socket = "open"
  /\ thread = "recv"
  /\ packet_counter = <<0, 0>>
  /\ last_state = None
  /\ pending_presses = {}
  /\ clients = {}
  /\ ev = Ev("init", "", <<>>, None, FALSE, <<>>, <<>>)
  /\ owed = {}
  /\ quiet = 0
  /\ updates = 0
  /\ built_counters = <<>>
  /\ server_frame = IdleServer
  /\ update_frame = IdleUpdate
  /\ buffers = NoBuffers
  /\ NoFleet
  /\ calibration = NoCalibration
  /\ collector = Collector(BLE_CALIBRATION_SKIP, <<>>, 0, {}, <<>>)
  /\ current_state = None
  /\ note = Note(<<>>, FALSE)
  /\ stick \in {Positions[1], Positions[3]}
  /\ \/ /\ link = Link("connected", TRUE, TRUE, TRUE, FALSE, 1, "connected", 0, 0)
        /\ report_id_offset = 0
        /\ usb = NoUsb
     \/ /\ link = NoLink
        /\ report_id_offset = 0
        /\ usb = [NoUsb EXCEPT !.pc = "new"]

NextPipe ==
  \/ \E data \in BleReports(stick) : ble_notification(data)
  \/ \E i \in 1..MaxTasks : apply_calibration(i)
  \/ stick_moves
  \/ usb_find_fails
  \/ usb_find
  \/ \E ok \in BOOLEAN : usb_write(ok)
  \/ \E ok \in BOOLEAN : usb_open(ok)
  \/ \E raises \in BOOLEAN, data \in HidReports(stick) : usb_calibrate_read(raises, data)
  \/ usb_calibrate_end
  \/ \E raises \in BOOLEAN, data \in HidReports(stick) : usb_read(raises, data)
  \/ usb_stop

SpecPipe == InitPipe /\ [][NextPipe]_vars

\* ------------------------------------------- main.py: the layouts of a report

\* parse_ble_input, lines 703-713: the reduced set of the 0x3F report on
\* b1, b2 = data[1], data[2]
SimpleButtonBits ==
  {<<"Dpad_Down", 1, 1>>, <<"Dpad_Right", 1, 2>>, <<"Dpad_Left", 1, 4>>,
   <<"Dpad_Up", 1, 8>>,
   <<"Start", 2, 2>>, <<"Home", 2, 16>>, <<"Capture", 2, 32>>, <<"L", 2, 64>>,
   <<"Z", 2, 128>>}

\* line 720: the center of a 16-bit axis
SIMPLE_CENTER == 32768

\* lines 716-719: data[i] | (data[i + 1] << 8) for the four axes from index i
RawSticks16(data, i) ==
  [k \in 1..4 |-> At(data, i + 2 * (k - 1)) + At(data, i + 2 * (k - 1) + 1) * 256]

\* 255 for a held button, else 0
Proxy(bs, name) == IF name \in bs THEN 255 ELSE 0

\* NSOWirelessDriver.parse_ble_input for self.ble_report_layout = layout:
\* the 0x3F report, the reordered layout (buttons 9-11, sticks 3-8), the
\* standard layout at report_id_offset o
parse_ble_input(data, layout, o, cal) ==
  IF Len(data) < 12 THEN None
  ELSE IF At(data, 0) = 63 /\ layout \in {"auto", "0x3f"}
  THEN LET raw == RawSticks16(data, 4)
           bs == DecodeButtons(SimpleButtonBits, data)
       IN  <<Parsed(bs, raw, [k \in 1..4 |-> raw[k] - SIMPLE_CENTER],
                    Proxy(bs, "L"), Proxy(bs, "Z"))>>
  ELSE IF layout \in {"auto", "reordered"}
  THEN LET raw == RawSticks(data, 3)
           bs == DecodeButtons(Shifted(NsoButtonBits, 6), data)
       IN  <<Parsed(bs, raw, StickOffsets(raw, cal), Proxy(bs, "ZL"),
                    Proxy(bs, "Z"))>>
  ELSE IF Len(data) < 12 + o THEN None
  ELSE LET raw == RawSticks(data, 6 + o)
           bs == DecodeButtons(Shifted(NsoButtonBits, o), data)
       IN  <<Parsed(bs, raw, StickOffsets(raw, cal), Proxy(bs, "ZL"),
                    Proxy(bs, "Z"))>>

\* The layout the table of the decoder gives a BLE report: by its length
\* and its first byte
TableLayout(data) ==
  IF Len(data) = 63 THEN "discovered"
  ELSE IF data # <<>> /\ At(data, 0) = 48 THEN "standard"
  ELSE IF data # <<>> /\ At(data, 0) = 63 THEN "simple"
  ELSE IF Len(data) >= 62 THEN "vendor"
  ELSE "fallback"

\* The decoder of each layout of the table; the fallback is whatever the
\* handler does
TableDecode(data, o, cal) ==
  CASE TableLayout(data) = "discovered" -> parse_ble_63_discovered(data, cal)
    [] TableLayout(data) = "standard" -> parse_ble_input(data, "standard", 0, cal)
    [] TableLayout(data) = "simple" -> parse_ble_input(data, "0x3f", 0, cal)
    [] TableLayout(data) = "vendor" -> parse_ble_blueretro(data, cal)
    [] OTHER -> ble_decode(data, o, cal)

\* The lengths and first bytes of the notifications of the layouts
ReportLengths == {10, 11, 12, 16, 61, 62, 63, 64}
ReportIds == {0, 48, 63}

\* A report of n bytes that begins with first, has bits set in its bytes 1
\* to 5 and the sticks at raw packed at index i
Shaped(n, first, i, raw) ==
  PackInto(PackInto(ReportAt(n, i, raw), 1, SubSeq(<<2, 10, 8, 18, 65>>, 1,
                           IF i > 5 THEN 5 ELSE i - 1)),
           0, <<first>>)

\* What controllers of the six layouts send with their sticks at raw
LayoutReports(raw) ==
  {Shaped(s[1], s[2], s[3], raw) :
     s \in {t \in ReportLengths \X ReportIds \X {5, 6, 10} : t[3] + 6 <= t[1]}}
  \cup {<<first>> \o Zeros(9) : first \in ReportIds}

\* The calibration a BLE driver holds after its thread made its five
\* assignments over 50 samples of the sticks at rest in Positions[1]
Calibrated ==
  Calibration(<<Positions[1][1]>>, <<Positions[1][2]>>, <<Positions[1][3]>>,
              <<Positions[1][4]>>, TRUE)

\* A running server and an NSOWirelessDriver connected, subscribed and
\* calibrated
InitDecode ==
  /\ running = TRUE
  /\ socket = "open"
  /\ thread = "recv"
  /\ packet_counter = <<0, 0>>
  /\ last_state = None
  /\ pending_presses = {}
  /\ clients = {}
  /\ ev = Ev("init", "", <<>>, None, FALSE, <<>>, <<>>)
  /\ owed = {}
  /\ quiet = 0
  /\ updates = 0
  /\ built_counters = <<>>
  /\ server_frame = IdleServer
  /\ update_frame = IdleUpdate
  /\ buffers = NoBuffers
  /\ NoFleet
  /\ calibration = Calibrated
  /\ collector = Collector(0, <<>>, BLE_CALIBRATION_SAMPLES, {Positions[1]},
                           <<[centers |-> Positions[1], pc |-> 5]>>)
  /\ current_state = None
  /\ note = Note(<<>>, FALSE)
  /\ stick = Positions[1]
  /\ link = Link("connected", TRUE, TRUE, TRUE, FALSE, 1, "connected", 0,
               BLE_CALIBRATION_SKIP + BLE_CALIBRATION_SAMPLES)
  /\ report_id_offset = 0
  /\ usb = NoUsb

NextDecode ==
  \/ \E data \in LayoutReports(stick) : ble_notification(data)
  \/ stick_moves

SpecDecode == InitDecode /\ [][NextDecode]_vars

\* ------------------------------------------ main.py: the 12-bit stick values

\* The values of a 12-bit axis
AxisValues == 0..4095

\* A running server and a calibrated NSOWirelessDriver whose controller
\* holds both sticks on the diagonal, anywhere in the range
InitNibble ==
  /\ running = TRUE
  /\ socket = "open"
  /\ thread = "recv"
  /\ packet_counter = <<0, 0>>
  /\ last_state = None
  /\ pending_presses = {}
  /\ clients = {}
  /\ ev = Ev("init", "", <<>>, None, FALSE, <<>>, <<>>)
  /\ owed = {}
  /\ quiet = 0
  /\ updates = 0
  /\ built_counters = <<>>
  /\ server_frame = IdleServer
  /\ update_frame = IdleUpdate
  /\ buffers = NoBuffers
  /\ NoFleet
  /\ calibration = Calibrated
  /\ collector = Collector(0, <<>>, BLE_CALIBRATION_SAMPLES, {Positions[1]},
                           <<[centers |-> Positions[1], pc |-> 5]>>)
  /\ current_state = None
  /\ note = Note(<<>>, FALSE)
  /\ \E v \in AxisValues : stick = <<v, v, v, v>>
  /\ link = Link("connected", TRUE, TRUE, TRUE, FALSE, 1, "connected", 0,
               BLE_CALIBRATION_SKIP + BLE_CALIBRATION_SAMPLES)
  /\ report_id_offset = 0
  /\ usb = NoUsb

\* The controller sends the stripped report of its sticks
NextNibble == ble_notification(ReportAt(16, 5, stick))

SpecNibble == InitNibble /\ [][NextNibble]_vars

\* --------------------------------- main.py: the connections of one BLE driver

\* lines 1296-1297, 1343-1344: the first start_notify of a new client has
\* returned, another is awaited; the handler is called from now on
ble_subscribes ==
  /\ link.pc = "attempt"
  /\ link' = [link EXCEPT !.pc = "subscribing", !.address = TRUE, !.up = TRUE,
                          !.decoded = 0]
  /\ UNCHANGED <<server, fleet, calibration, collector, current_state, note,
                 report_id_offset, usb, stick>>

\* The start_notify awaited returns, and the iteration goes on to its inner
\* loop, or raises: the client is disconnected (lines 1316-1320, the exit of
\* `async with`) and the exception reaches line 1384
ble_subscribe_rest(ok) ==
  /\ link.pc = "subscribing"
  /\ link' = IF ok
             THEN [link EXCEPT !.pc = "connected", !.outcome = "connected"]
             ELSE IF ~link.running
             THEN [link EXCEPT !.pc = "exited", !.outcome = "notify_raises",
                               !.up = FALSE]
             ELSE [link EXCEPT !.pc = "sleep", !.outcome = "notify_raises",
                               !.delay = retry_sleep(link.attempts),
                               !.up = FALSE]
  /\ UNCHANGED <<server, fleet, calibration, collector, current_state, note,
                 report_id_offset, usb, stick>>

\* An NSOWirelessDriver from its start() until it is stopped: the iterations
\* of its loop, the notifications of the controller at rest and the threads
\* of _apply_calibration
NextSession ==
  \/ ble_start
  \/ ble_loop_top
  \/ ble_sleep_returns
  \/ ble_connects
  \/ ble_subscribes
  \/ \E ok \in BOOLEAN : ble_subscribe_rest(ok)
  \/ ble_notification(ReportAt(16, 5, stick))
  \/ \E i \in 1..MaxTasks : apply_calibration(i)

SpecSession == InitBle /\ [][NextSession]_vars
\* ------------------------------------- handle_requests on its three buffers

\* The packets in the tables of Pad Data packets, Version replies and Pad
\* Info replies
PacketsOf(pad_data, version, pad_info) ==
  {pad_data[i].packet : i \in {j \in 1..Len(pad_data) : ~pad_data[j].raised}}
  \cup {version[i] : i \in 1..Len(version)}
  \cup UNION {{pad_info[i][j] : j \in 1..Len(pad_info[i])} : i \in 1..Len(pad_info)}

\* For each packet what zlib.crc32 was computed of, the packet with bytes
\* 8-11 zeroed, and the CRC
CrcsOf(packets) ==
  SubSeq([i \in 1..Len(packets) |->
            <<PackInto(packets[i], 8, Zeros(4)), Slice(packets[i], 8, 12)>>],
         1, Len(packets))

\* The CRCs computed for the packets the inputs of the model give
KnownCrcs ==
  CrcsOf(SetToSeq(PacketsOf(PadDataTable, VersionReplyTable, PadInfoRepliesTable)))

\* The CRC of data: read from `known` where it was computed before
LookupCrc(data, known, hits) ==
  IF hits = {} THEN calculate_crc32(data)
  ELSE known[CHOOSE i \in hits : TRUE][2]

\* Where `known` holds data
HitsOf(data, known) == {i \in 1..Len(known) : known[i][1] = data}

\* _calculate_crc32(data)
calculate_known_crc32(data) ==
  LookupCrc(data, KnownCrcs, HitsOf(data, KnownCrcs))

\* The CRC tail of the three builders (see StampCrc)
StampKnownCrc(packet) ==
  WriteAll(packet, <<
    <<8, Zeros(4)>>,
    <<8, Slice(packet, 8, 12)>>,
    <<8, calculate_known_crc32(PackInto(packet, 8, Zeros(4)))>> >>)

\* The outcome of writing `fields` onto `base`: struct.pack_into raises on
\* a counter beyond 32 bits, after the eight fields before it are written
PadDataOutcome(base, fields, next_counter) ==
  IF FitsU32(next_counter)
  THEN [raised |-> FALSE, buffer |-> StampKnownCrc(WriteAll(base, fields))]
  ELSE [raised |-> TRUE, buffer |-> WriteAll(base, SubSeq(fields, 1, 8))]

\* The fields without the write of the button bytes when no button is held
WithoutIdleButtons(fields, buttons) ==
  IF buttons = {} THEN SubSeq(fields, 1, 9) \o SubSeq(fields, 11, Len(fields))
  ELSE fields

\* A construction that leaves the buffer as the packet before left it and
\* writes bytes 36-39 only when a button is held
create_pad_data_packet_unzeroed(buffer, state, pad_id, server_id, pending, counter) ==
  PadDataOutcome(buffer,
                 WithoutIdleButtons(
                   PadDataFields(ParsedOf(state),
                                 LatchedButtons(ParsedOf(state), pending),
                                 pad_id, server_id, Incr(counter)),
                   LatchedButtons(ParsedOf(state), pending)),
                 Incr(counter))

\* _create_pad_data_packet on self._pad_data_buffer as the construction
\* before left it: the buffer is cleared, the fields are written and the CRC
\* stamped; bytes(packet) is returned
create_pad_data_packet_in(buffer, state, pad_id, server_id, pending, counter) ==
  PadDataOutcome(Cleared(buffer, 100),
                 PadDataFields(ParsedOf(state),
                               LatchedButtons(ParsedOf(state), pending),
                               pad_id, server_id, Incr(counter)),
                 Incr(counter))

\* _create_pad_info_packet on self._pad_info_buffer as it was left
create_pad_info_packet_in(buffer, pad_id, connected, server_id) ==
  StampKnownCrc(WriteAll(Cleared(buffer, 32), PadInfoFields(pad_id, connected, server_id)))

\* _respond_version on self._version_buffer as it was left
version_packet_in(buffer, data, server_id) ==
  StampKnownCrc(WriteAll(Cleared(buffer, 24), VersionFields(data, server_id)))

\* The packets _respond_pad_info(data, addr) builds one after the other in
\* self._pad_info_buffer, which it finds as `buffer`
pad_info_packets_in(buffer, data, server_id) ==
  IF Len(data) >= 24
  THEN LET slots == slots_to_report(data)
           req_server_id ==
             IF Len(data) >= 16 THEN UnpackU32(Slice(data, 12, 16)) ELSE server_id
           built[i \in 1..Len(slots)] ==
             create_pad_info_packet_in(IF i = 1 THEN buffer ELSE built[i - 1],
                                       slots[i], slots[i] = 0, req_server_id)
       IN  SubSeq(built, 1, Len(slots))
  ELSE <<>>

\* handle_version with _respond_version writing into self._version_buffer
version_in_buffer(data, addr, ok) ==
  /\ thread = "recv" /\ socket = "open"
  /\ IsClientMessage(data) /\ MessageType(data) = PACKET_TYPE_VERSION
  /\ LET packet == version_packet_in(buffers.version, data, DefaultServerId)
     IN  /\ buffers' = [buffers EXCEPT !.version = packet]
         /\ ev' = Ev("request", addr, data, None, FALSE, <<>>,
                     <<Send(addr, packet, ok)>>)
  /\ thread' = IF ok THEN NextIteration ELSE "ended"
  /\ UNCHANGED <<running, socket, packet_counter, last_state, pending_presses,
                 clients, history, server_frame, update_frame,
                 fleet, pipe>>

\* handle_pad_info with _create_pad_info_packet writing into
\* self._pad_info_buffer
pad_info_in_buffer(data, addr, fail) ==
  /\ thread = "recv" /\ socket = "open"
  /\ IsClientMessage(data) /\ MessageType(data) = PACKET_TYPE_PAD_INFO
  /\ LET packets == pad_info_packets_in(buffers.pad_info, data, DefaultServerId)
         n == IF fail = 0 THEN Len(packets) ELSE fail
     IN  /\ fail <= Len(packets)
         /\ buffers' = IF n = 0 THEN buffers
                       ELSE [buffers EXCEPT !.pad_info = packets[n]]
         /\ ev' = Ev("request", addr, data, None, FALSE, <<>>,
                     SubSeq([i \in 1..n |-> Send(addr, packets[i], i # fail)], 1, n))
  /\ thread' = NextIteration
  /\ UNCHANGED <<running, socket, packet_counter, last_state, pending_presses,
                 clients, history, server_frame, update_frame,
                 fleet, pipe>>

\* What handle_requests does with the outcome r of a construction in
\* self._pad_data_buffer for a request: struct.error is swallowed, the packet
\* goes to the sender
request_built(r, data, addr, ok) ==
  /\ packet_counter' = Incr(packet_counter)
  /\ buffers' = [buffers EXCEPT !.pad_data = r.buffer]
  /\ IF r.raised
     THEN /\ ok
          /\ thread' = NextIteration
          /\ ev' = Ev("request", addr, data, None, FALSE, <<>>, <<>>)
          /\ UNCHANGED <<pending_presses, history>>
     ELSE /\ thread' = IF ok THEN NextIteration ELSE "ended"
          /\ pending_presses' = ClearLatch(pending_presses)
          /\ ev' = Ev("request", addr, data, None, FALSE, r.buffer,
                      <<Send(addr, r.buffer, ok)>>)
          /\ owed' = {}
          /\ quiet' = quiet + 1
          /\ built_counters' =
               LastTwo(Append(built_counters, Slice(r.buffer, 32, 36)))
          /\ UNCHANGED updates

\* handle_pad_data with _create_pad_data_packet writing into
\* self._pad_data_buffer
pad_data_in_buffer(data, addr, ok) ==
  /\ thread = "recv" /\ socket = "open"
  /\ IsClientMessage(data) /\ MessageType(data) = PACKET_TYPE_PAD_DATA
  /\ clients' = RegisterClient(clients, addr)
  /\ IF last_state = None
     THEN /\ ok
          /\ thread' = NextIteration
          /\ ev' = Ev("request", addr, data, None, FALSE, <<>>, <<>>)
          /\ UNCHANGED <<packet_counter, pending_presses, history, buffers>>
     ELSE /\ CanBuild
          /\ request_built(create_pad_data_packet_in(
                             buffers.pad_data, last_state[1], 0, DefaultServerId,
                             pending_presses, packet_counter),
                           data, addr, ok)
  /\ UNCHANGED <<running, socket, last_state, server_frame, update_frame,
                 fleet, pipe>>

\* What the push does with the outcome r of a construction in
\* self._pad_data_buffer: struct.error leaves handle_requests, the packet
\* goes to every client
push_built(r, failing) ==
  /\ packet_counter' = Incr(packet_counter)
  /\ buffers' = [buffers EXCEPT !.pad_data = r.buffer]
  /\ IF r.raised
     THEN /\ failing = {}
          /\ thread' = "crashed"
          /\ ev' = Ev("timeout", "", <<>>, None, FALSE, <<>>, <<>>)
          /\ UNCHANGED <<clients, pending_presses, history>>
     ELSE /\ thread' = NextIteration
          /\ clients' = clients \ failing
          /\ pending_presses' = ClearLatch(pending_presses)
          /\ ev' = Ev("timeout", "", <<>>, None, FALSE, r.buffer,
                      LET order == SelectSeq(AddrNames,
                                             LAMBDA a : a \in PushTargets(clients))
                      IN  SubSeq([i \in 1..Len(order) |->
                                    Send(order[i], r.buffer, order[i] \notin failing)],
                                 1, Len(order)))
          /\ owed' = {}
          /\ quiet' = quiet + 1
          /\ built_counters' =
               LastTwo(Append(built_counters, Slice(r.buffer, 32, 36)))
          /\ UNCHANGED updates

\* The push of a timeout with _create_pad_data_packet writing into
\* self._pad_data_buffer
push_in_buffer(failing) ==
  /\ thread = "recv" /\ socket = "open"
  /\ failing \subseteq clients
  /\ IF last_state # None /\ clients # {}
     THEN /\ CanBuild
          /\ push_built(create_pad_data_packet_in(
                          buffers.pad_data, last_state[1], 0, DefaultServerId,
                          pending_presses, packet_counter),
                        failing)
     ELSE /\ failing = {}
          /\ thread' = NextIteration
          /\ ev' = Ev("timeout", "", <<>>, None, FALSE, <<>>, <<>>)
          /\ UNCHANGED <<packet_counter, pending_presses, clients, history, buffers>>
  /\ UNCHANGED <<running, socket, last_state, server_frame, update_frame,
                 fleet, pipe>>

\* The one client of the server
BufferClient == AddrNames[1]

NextBuffer ==
  \/ start
  \/ \E parsed \in DecodedReports : read_loop_final(parsed)
  \/ \E data \in Datagrams, ok \in BOOLEAN : version_in_buffer(data, BufferClient, ok)
  \/ \E data \in Datagrams, fail \in 0..1 : pad_info_in_buffer(data, BufferClient, fail)
  \/ \E data \in Datagrams, ok \in BOOLEAN : pad_data_in_buffer(data, BufferClient, ok)
  \/ push_in_buffer({})

\* The server with every packet built in the bytearray the packet before
\* of its kind was built in
SpecBuffer == (Init \/ InitAged) /\ [][NextBuffer]_vars


\* ------------------------------------------------------------ properties

\* The buttons a Pad Data packet reports pressed: the bits set in bytes 36-39
PacketButtons(packet) ==
  {b \in Buttons : (packet[37 + ButtonBit[b][1]] \div ButtonBit[b][2]) % 2 = 1}

\* The last step received a datagram with magic DSUC, at least 20 bytes and
\* message type Pad Data
PadDataReceived ==
  /\ ev.op = "request"
  /\ Len(ev.data) >= 20
  /\ SubSeq(ev.data, 1, 4) = <<68, 83, 85, 67>>
  /\ SubSeq(ev.data, 17, 20) = <<2, 0, 16, 0>>

\* The last step received a datagram with magic DSUC, at least 20 bytes and
\* message type Version
VersionReceived ==
  /\ ev.op = "request"
  /\ Len(ev.data) >= 20
  /\ SubSeq(ev.data, 1, 4) = <<68, 83, 85, 67>>
  /\ SubSeq(ev.data, 17, 20) = <<0, 0, 16, 0>>

\* C1: with update() and the construction of a Pad Data packet atomic, every
\* button an update() reported pressed since the previous constructed packet
\* is reported pressed by the packet a step constructs, whatever later
\* update() released it.
C1_LatchGuarantee ==
  [][ev'.built # <<>> => owed \subseteq PacketButtons(ev'.built)]_vars

\* A packet was constructed that reports a button the stored state has released
C1_Witness ==
  /\ ev.built # <<>>
  /\ last_state # None
  /\ \E b \in PacketButtons(ev.built) : b \notin last_state[1].parsed.buttons

\* C2: statement by statement, the clear of the pending set removes no button
\* that is missing from the packet the server thread has just built.
C2_LatchMutualExclusion ==
  [][(server_frame.pc = "clear" /\ server_frame'.pc = "send")
       => pending_presses \subseteq PacketButtons(server_frame.packet)]_vars

\* C3 as amended: with no update() since, the first packet constructed after
\* an update() reports every button of the stored state pressed, and the
\* second and every later one reports exactly the buttons the stored state
\* has pressed: A is still reported pressed.
C3_SecondPacketReportsStoredState ==
  (ev.built # <<>> /\ last_state # None) =>
     /\ quiet >= 1 => last_state[1].parsed.buttons \subseteq PacketButtons(ev.built)
     /\ quiet >= 2 => PacketButtons(ev.built) = last_state[1].parsed.buttons

\* After a single update() with A pressed the second packet was constructed
\* and reports A pressed
C3_Witness ==
  /\ updates = 1 /\ quiet = 2 /\ ev.built # <<>>
  /\ "A" \in last_state[1].parsed.buttons
  /\ "A" \in PacketButtons(ev.built)

\* C3 as stated: after a single update() with A pressed and no further
\* update(), the first packet reports A pressed and the second reports A not
\* pressed.
C3_SecondPacketReportsReleased ==
  (updates = 1 /\ ev.built # <<>> /\ "A" \in last_state[1].parsed.buttons) =>
     /\ quiet = 1 => "A" \in PacketButtons(ev.built)
     /\ quiet = 2 => "A" \notin PacketButtons(ev.built)

\* C4 as amended: a Pad Data request always adds its sender to the known
\* clients; exactly one sendto, of a 100-byte Pad Data packet to the sender,
\* is made when a state is stored and the incremented counter still fits 32
\* bits, and none otherwise.
C4_ReplyWhenStateStored ==
  PadDataReceived =>
     /\ ev.who \in clients
     /\ IF last_state # None /\ packet_counter[1] <= 65535
        THEN /\ Len(ev.sends) = 1
             /\ ev.sends[1].to = ev.who
             /\ Len(ev.sends[1].data) = 100
             /\ SubSeq(ev.sends[1].data, 1, 4) = <<68, 83, 85, 83>>
             /\ SubSeq(ev.sends[1].data, 17, 20) = <<2, 0, 16, 0>>
        ELSE ev.sends = <<>>

\* A Pad Data request was answered with one packet
C4_Witness ==
  /\ PadDataReceived
  /\ running
  /\ Len(ev.sends) = 1
  /\ ev.sends[1].ok
  /\ Len(ev.sends[1].data) = 100

\* C4 as stated: in every reachable state of a running server a Pad Data
\* request adds the sender to the known clients and is answered with exactly
\* one 100-byte Pad Data packet to the sender.
C4_AlwaysOneReply ==
  (PadDataReceived /\ running) =>
     /\ ev.who \in clients
     /\ Len(ev.sends) = 1
     /\ ev.sends[1].to = ev.who
     /\ Len(ev.sends[1].data) = 100

\* C5: after a pipeline decoded a report while the server was running, the
\* stored state is that decoded state and every button pressed in it is in
\* the pending set.
C5_DecodeReachesServer ==
  (ev.op = "decode" /\ running) =>
     /\ last_state = ev.state
     /\ ev.state[1].parsed.buttons \subseteq pending_presses

\* C6: a client whose sendto failed in the immediate Pad Data reply, in the
\* Version reply or in the push is no longer a known client, and the loop of
\* the running server goes on.
C6_SendFailureDropsClient ==
  \A i \in 1..Len(ev.sends) :
     (/\ ~ev.sends[i].ok
      /\ \/ ev.op = "timeout"
         \/ PadDataReceived
         \/ VersionReceived)
     => /\ ev.sends[i].to \notin clients
        /\ running => thread = "recv"

PushedTo(c) ==
  /\ ev.op = "timeout"
  /\ \E i \in 1..Len(ev.sends) : ev.sends[i].to = c

C8_CounterIncrementsByOne ==
  Len(built_counters) = 2 =>
     LET a == <<built_counters[1][3] + 256 * built_counters[1][4],
                built_counters[1][1] + 256 * built_counters[1][2]>>
         b == <<built_counters[2][3] + 256 * built_counters[2][4],
                built_counters[2][1] + 256 * built_counters[2][2]>>
     IN  \/ b[1] = a[1] /\ b[2] = a[2] + 1
         \/ b[1] = a[1] + 1 /\ b[2] = 0 /\ a[2] = 65535

\* Two packets were constructed in a run that started at counter 0, the
\* second by a push
C8_Witness ==
  /\ built_counters = <<<<1, 0, 0, 0>>, <<2, 0, 0, 0>>>>
  /\ ev.op = "timeout"
  /\ ev.built # <<>>

\* C9: the counter stays below 2^32, every step that has a packet to
\* construct constructs one, and the packet after counter 2^32 - 1 carries 0.
C9_CounterWraps ==
  /\ packet_counter[1] <= 65535
  /\ thread # "crashed"
  /\ (PadDataReceived /\ last_state # None) => ev.built # <<>>
  /\ (ev.op = "timeout" /\ last_state # None /\ clients # {}) => ev.built # <<>>
  /\ (Len(built_counters) = 2 /\ built_counters[1] = <<255, 255, 255, 255>>)
       => built_counters[2] = <<0, 0, 0, 0>>

\* C10: bytes 8-11 of every packet passed to sendto (Version, Pad Info, Pad
\* Data) are the CRC-32 of that packet with bytes 8-11 set to zero.
C10_CrcOverFullPacket ==
  \A i \in 1..Len(ev.sends) :
     LET p == ev.sends[i].data
     IN  /\ Len(p) >= 12
         /\ SubSeq(p, 9, 12) =
              calculate_crc32(SubSeq(p, 1, 8) \o <<0, 0, 0, 0>> \o SubSeq(p, 13, Len(p)))

\* A Pad Info request was answered with the packets of two slots
C10_Witness ==
  /\ ev.op = "request"
  /\ Len(ev.sends) = 2
  /\ Len(ev.sends[1].data) = 32
  /\ Len(ev.sends[2].data) = 32
  /\ ev.sends[1].data # ev.sends[2].data

\* The last step received a datagram with magic DSUC, at least 20 bytes and
\* message type Pad Info
PadInfoReceived ==
  /\ ev.op = "request"
  /\ Len(ev.data) >= 20
  /\ SubSeq(ev.data, 1, 4) = <<68, 83, 85, 67>>
  /\ SubSeq(ev.data, 17, 20) = <<1, 0, 16, 0>>

\* C11: in every reply to a Pad Info request the connected-state byte
\* (offset 21) is 0x02 exactly when the reply's slot id (offset 20) is 0.
C11_OnlySlotZeroConnected ==
  PadInfoReceived =>
    \A i \in 1..Len(ev.sends) :
       (ev.sends[i].data[22] = 2) <=> (ev.sends[i].data[21] = 0)

\* The slot ids a Pad Info request carries after its count field
ListedSlots(data) == IF Len(data) > 24 THEN SubSeq(data, 25, Len(data)) ELSE <<>>

\* C12: the replies to a Pad Info request are 32 bytes each, go to the
\* sender, and the i-th carries the i-th slot id of the request in byte 20
\* and in the last MAC byte (offset 29); unless a sendto raised there is one
\* reply per listed slot id.
C12_OneReplyPerListedSlot ==
  PadInfoReceived =>
    LET listed == ListedSlots(ev.data)
    IN  /\ Len(ev.sends) <= Len(listed)
        /\ \A i \in 1..Len(ev.sends) :
              /\ ev.sends[i].to = ev.who
              /\ Len(ev.sends[i].data) = 32
              /\ i <= Len(listed)
              /\ ev.sends[i].data[21] = listed[i]
              /\ ev.sends[i].data[30] = listed[i]
        /\ (\A i \in 1..Len(ev.sends) : ev.sends[i].ok)
              => Len(ev.sends) = Len(listed)

\* C13: a Version request is answered with one 24-byte packet to the sender
\* with magic DSUS, 1001 in bytes 4-5 and 20-21, and bytes 12-15 of the
\* request in bytes 12-15.
C13_VersionReply ==
  VersionReceived =>
    /\ Len(ev.sends) = 1
    /\ ev.sends[1].to = ev.who
    /\ Len(ev.sends[1].data) = 24
    /\ SubSeq(ev.sends[1].data, 1, 4) = <<68, 83, 85, 83>>
    /\ SubSeq(ev.sends[1].data, 5, 6) = <<233, 3>>
    /\ SubSeq(ev.sends[1].data, 21, 22) = <<233, 3>>
    /\ SubSeq(ev.sends[1].data, 13, 16) = SubSeq(ev.data, 13, 16)

\* A Version request carrying a non-zero id was answered and sendto returned
C13_Witness ==
  /\ VersionReceived
  /\ SubSeq(ev.data, 13, 16) # <<0, 0, 0, 0>>
  /\ Len(ev.sends) = 1
  /\ ev.sends[1].ok

\* C14: whenever the first k ports 26760..26760+k-1 are held by other
\* processes and 26760+k is free, for some k in 0..4, a call of start() returns
\* True and leaves server.port = 26760+k, whichever errno the platform gives
\* the failed binds.
C14_BindsFirstFreePort ==
  \A k \in 0..(DSU_PORT_MAX_ATTEMPTS - 1) :
    (binds # <<>> /\ Held(k) \subseteq occupied /\ DSU_PORT + k \notin occupied)
      => binds[Len(binds)].returned /\ port = DSU_PORT + k

\* The last start() tried all five ports and bound none
AllPortsFailed ==
  /\ binds # <<>>
  /\ ~binds[Len(binds)].returned
  /\ Len(binds[Len(binds)].tried) = DSU_PORT_MAX_ATTEMPTS

\* C15: when the binds fail on all five ports, start() returns False and
\* leaves socket None, running False and no handler thread; the start() of
\* the driver that owns the server goes on all the same: it drops the
\* server, sets running and starts its read or connection loop, and every
\* report the loop decodes afterwards becomes current_state while update()
\* is not reached and the server stores nothing.
C15_DriverRunsWithoutServer ==
  /\ [](AllPortsFailed => socket = "None" /\ ~running /\ thread = "none"
                           /\ last_state = None)
  /\ [][\A i \in 1..Len(drivers) :
          /\ (drivers[i].dsu_owned /\ binds' # binds /\ AllPortsFailed')
               => /\ drivers'[i].running
                  /\ drivers'[i].loop = "running"
                  /\ ~drivers'[i].dsu_server
          /\ (drivers[i].dsu_owned /\ AllPortsFailed /\ drivers'[i] # drivers[i]
               /\ ev'.op = "decode")
               => /\ drivers'[i].current_state # None
                  /\ <<RawState(drivers'[i].current_state[1])>> = ev'.state
                  /\ ~ev'.updated
                  /\ drivers'[i].passed = None]_vars

\* The owning driver decoded a pressed button after all five binds failed
C15_Witness ==
  /\ AllPortsFailed
  /\ \E i \in 1..Len(drivers) :
       /\ drivers[i].dsu_owned /\ drivers[i].running
       /\ drivers[i].current_state # None
       /\ drivers[i].current_state[1].buttons # {}

\* The drivers that have handed a state to update() of the server
Passing == {i \in 1..Len(drivers) : drivers[i].passed # None}

C17_DistinctPadIds ==
  LET ids == PadIds([n \in 1..Len(coordinator.drivers) |->
                       drivers[coordinator.drivers[n]]])
  IN  /\ \A n \in 1..Len(ids) : ids[n] \in 0..3
      /\ \A n, m \in 1..Len(ids) : n # m => ids[n] # ids[m]

\* The drivers whose start() returned False or raised before running was set
Failed == {i \in 1..Len(drivers) : drivers[i].pc \in {"returned", "raised"}
                                   /\ drivers[i].loop = "none"}

\* C18: the step in which the start() of one pipeline of a coordinator fails
\* leaves the shared server (running, socket, handler thread) and every
\* other pipeline as they were, and a report that a sibling of a failed
\* pipeline decodes while the server runs becomes the sibling's
\* current_state and is stored by update().
C18_FailureStaysLocal ==
  [][coordinator.pc # "absent" =>
       \A i \in 1..Len(drivers) :
         /\ (i \notin Failed /\ (i \in Failed)')
              => /\ running' = running /\ socket' = socket /\ thread' = thread
                 /\ \A j \in 1..Len(drivers) : j # i => drivers'[j] = drivers[j]
         /\ (Failed \ {i} # {} /\ running /\ ev'.op = "decode"
              /\ drivers'[i] # drivers[i])
              => /\ drivers'[i].current_state # None
                 /\ ev'.updated
                 /\ last_state' = ev'.state]_vars

\* C19: once stop() of the coordinator has returned, and until it is started
\* again, the running flag of every driver it created is False, whatever
\* the driver threads that were still inside their start() do afterwards.
C19_StoppedStaysStopped ==
  coordinator.pc = "stopped" => \A i \in 1..Len(drivers) : ~drivers[i].running

\* C20: with a coordinator, every close of the shared server's socket is
\* made by the coordinator's stop(), none by a driver's stop(); no socket is
\* closed twice; and once a stop() of the coordinator has returned, every
\* socket the server had bound has been closed, however many times start()
\* and stop() were called on the coordinator and on its drivers.
C20_ClosedOnceByCoordinator ==
  coordinator.pc # "absent" =>
    /\ \A n \in 1..Len(closes) : closes[n].by = "coordinator"
    /\ \A n, m \in 1..Len(closes) : n # m => closes[n].socket # closes[m].socket
    /\ Len(closes) <= Opened
    /\ coordinator.pc = "stopped" => socket = "None" /\ Len(closes) = Opened

\* stop() of the coordinator has returned twice after one start() that bound
\* the socket, a driver had its running flag set before, and the socket was
\* closed once
C20_Witness ==
  /\ coordinator.pc = "stopped"
  /\ coordinator.starts = 1 /\ coordinator.stops = 2
  /\ \E i \in 1..Len(drivers) : drivers[i].loop # "none"
  /\ Opened = 1 /\ Len(closes) = 1

\* Bytes 36-39 of a packet built for the buttons bs
ButtonBytes(bs) == [k \in 1..4 |-> ButtonByte(bs, k - 1)]

\* C27: a Pad Data request received by a server whose stored state has A
\* pressed is answered with one 100-byte packet whose bytes 8-11 are the
\* CRC-32 of the packet with those bytes zero, whose byte 20 is 0 and whose
\* byte 37 has bit 6 set; and each of the 15 buttons alone sets exactly one
\* bit of bytes 36-39, a bit no other button sets.
C27_PadDataForPressedA ==
  /\ (PadDataReceived /\ last_state # None
        /\ "A" \in last_state[1].parsed.buttons)
       => /\ Len(ev.sends) = 1
          /\ LET p == ev.sends[1].data
             IN  /\ Len(p) = 100
                 /\ SubSeq(p, 9, 12) =
                      calculate_crc32(SubSeq(p, 1, 8) \o <<0, 0, 0, 0>>
                                      \o SubSeq(p, 13, 100))
                 /\ p[21] = 0
                 /\ (p[38] \div 64) % 2 = 1
  /\ Cardinality(Buttons) = 15
  /\ \A b \in Buttons :
        /\ Cardinality({k \in 1..4 : ButtonBytes({b})[k] # 0}) = 1
        /\ \E k \in 1..4 : ButtonBytes({b})[k] \in {1, 2, 4, 8, 16, 32, 64, 128}
  /\ \A b, c \in Buttons : b # c => ButtonBytes({b}) # ButtonBytes({c})

\* C29: a step that constructs a Pad Data packet leaves the pending set
\* empty; every other step (update(), Version, Pad Info and ignored
\* datagrams, start, stop) removes no button from it, and an update() that
\* ran adds exactly the buttons its state reports pressed.
C29_LatchGrowsUntilConstruction ==
  [][/\ ev'.built # <<>> => pending_presses' = {}
     /\ ev'.built = <<>> => pending_presses \subseteq pending_presses'
     /\ (ev'.op = "decode" /\ ev'.updated)
          => pending_presses' = pending_presses \cup ev'.state[1].parsed.buttons]_vars

\* A Pad Info request was handled after a packet had been constructed and
\* the latch holds a button
C29_Witness ==
  /\ PadInfoReceived
  /\ built_counters # <<>>
  /\ pending_presses # {}

\* C30: a constructed packet reports a button pressed only if the stored
\* state has it pressed or an update() reported it pressed since the packet
\* constructed before, and the construction leaves the stored state as it
\* was: after an update() that released b, at most one packet reports b
\* until an update() reports b pressed again.
C30_ReleasedButtonReportedOnce ==
  [][ev'.built # <<>>
       => /\ PacketButtons(ev'.built) \subseteq last_state[1].parsed.buttons \cup owed
          /\ last_state' = last_state]_vars

\* After a press and a release were reported by update(), the second packet
\* since was constructed and reports no button
C30_Witness ==
  /\ updates = 2 /\ quiet = 2 /\ packet_counter[1] = 0
  /\ ev.built # <<>>
  /\ last_state[1].parsed.buttons = {}
  /\ PacketButtons(ev.built) = {}

\* C21: whenever an established BLE connection is lost while the driver is
\* still running, the pipeline eventually starts a new connection attempt
\* (or is stopped)
C21_ReconnectsAfterLoss ==
  (link.lost /\ link.running) ~> (link.pc = "attempt" \/ ~link.running)

\* C22: while the BLE driver is running, an iteration that fails is followed
\* by asyncio.sleep(BLE_CONNECT_RETRY_SEC), the same delay whatever the
\* number of iterations before it, and then by another iteration; an
\* iteration starts only while running is True
C22_RetriesAtFixedDelay ==
  /\ [][/\ (link.pc = "attempt" /\ link.running
              /\ link'.pc \notin {"attempt", "connected"})
             => (link'.pc = "sleep" /\ link'.delay = BLE_CONNECT_RETRY_SEC)
        /\ (link.pc # "attempt" /\ link'.pc = "attempt")
             => (link.running /\ link.pc = "top"
                 /\ link'.attempts = CapAttempts(link.attempts + 1))]_vars
  /\ (link.pc = "sleep" /\ link.running)
       ~> (link.pc = "attempt" \/ ~link.running)

C22_Witness ==
  /\ link.pc = "attempt"
  /\ link.running
  /\ link.attempts = MaxAttempts
  /\ link.outcome \in QuietFailures \cup RaisedFailures
  /\ link.delay = BLE_CONNECT_RETRY_SEC

\* C23: once calibration['calibrated'] is True, the flag and the four
\* centers never change again
C23_CalibratedIsFinal ==
  [][calibration.calibrated => calibration' = calibration]_vars

\* C24: the calibration is CALIBRATED only after the full number of samples
\* was collected, 10 over USB and 50 over BLE
C24_CalibratedAfterFullThreshold ==
  calibration.calibrated =>
    collector.taken >= (IF usb.pc = "absent" THEN BLE_CALIBRATION_SAMPLES
                        ELSE USB_CALIBRATION_READS)

\* The stick offsets of a decoded report
OffsetsOf(parsed) ==
  <<parsed.sticks.main_x, parsed.sticks.main_y, parsed.sticks.c_x,
    parsed.sticks.c_y>>

\* C25: once the calibration has been fed its full number of samples (10
\* over USB, 50 over BLE), all with the same raw stick values, a report with
\* those stick values decodes to the offsets (0, 0, 0, 0)
C25_NeutralDecodesToZero ==
  \A v \in collector.seen :
    /\ (usb.pc = "read" /\ collector.seen = {v}
          /\ collector.taken >= USB_CALIBRATION_READS)
         => OffsetsOf(parse_input(ReportAt(16, 6, v), 0, calibration)[1])
              = <<0, 0, 0, 0>>
    /\ (usb.pc = "absent" /\ collector.seen = {v}
          /\ collector.taken >= BLE_CALIBRATION_SAMPLES)
         => OffsetsOf(ble_decode(ReportAt(16, 5, v), report_id_offset,
                                 calibration)[1]) = <<0, 0, 0, 0>>

\* A report no decoder of its transport takes: fewer than 12 bytes over USB,
\* fewer than 11 over BLE, or 11 that begin with 0x30
TooShort(data) ==
  IF usb.pc = "absent"
  THEN Len(data) < 11 \/ (Len(data) < 12 /\ At(data, 0) = 48)
  ELSE Len(data) < 12

C28_InitReportsBeforeReads ==
  /\ usb.writes \in {<<>>, <<DEFAULT_REPORT_DATA>>,
                     <<DEFAULT_REPORT_DATA, SET_LED_DATA>>}
  /\ (usb.reads > 0 \/ usb.pc \in {"open", "calibrate", "read"}
        \/ usb.running \/ usb.returned = <<TRUE>>)
       => usb.writes = <<DEFAULT_REPORT_DATA, SET_LED_DATA>>
  /\ usb.failed # "none"
       => /\ usb.pc = "returned" /\ usb.returned = <<FALSE>>
          /\ Len(usb.writes) < 2
          /\ ~usb.running
          /\ usb.reads = 0
          /\ current_state = None
          /\ ev.op = "init"

C28_Witness ==
  /\ usb.pc = "read"
  /\ usb.reads = MaxReads
  /\ current_state # None
  /\ ev.op = "decode"

\* The buttons and the sticks of a decoded report: what the layout decides
LayoutView(parsed) == <<parsed[1].buttons, parsed[1].sticks>>

\* C31: a BLE report is decoded by the layout its length and first byte
\* select in the table: 63 bytes by BLE-discovered, a first byte 0x30 by
\* BLE-standard, a first byte 0x3F by BLE-simple (16-bit little-endian
\* sticks around 32768), any other report of 62 bytes or more by BLE-vendor
C31_LayoutFollowsTable ==
  [][(note' # note /\ usb.pc = "absent" /\ ~note'.raised
        /\ TableDecode(note'.data, report_id_offset, calibration) # None)
       => /\ current_state' # None
          /\ LayoutView(current_state')
               = LayoutView(TableDecode(note'.data, report_id_offset,
                                        calibration))]_vars

\* C32: for all x, y in 0..4095, _stick_12bit_from_bytes returns (x, y) from
\* the three bytes x & 0xFF, (x >> 8) | ((y & 0x0F) << 4), y >> 4, as does
\* the decoder from a report that carries them, and for all bytes b0, b1, b2
\* the two values it returns lie in 0..4095
C32_NibbleRoundTrip ==
  current_state # None =>
    /\ RawOf(current_state[1]) = stick
    /\ \A y \in AxisValues :
         LET b == StickBytes(stick[1], y)
         IN  stick_12bit_from_bytes(b[1], b[2], b[3]) = <<stick[1], y>>
    /\ stick[1] < 256 =>
         \A b0, b2 \in 0..255 :
           stick_12bit_from_bytes(b0, stick[1], b2) \in AxisValues \X AxisValues

\* The decoder returned the top of the range on the four axes from the
\* report of a controller that holds its sticks there
C32_Witness ==
  /\ current_state # None
  /\ note.data = ReportAt(16, 5, <<4095, 4095, 4095, 4095>>)
  /\ RawOf(current_state[1]) = <<4095, 4095, 4095, 4095>>

\* round(127 * a / sqrt(densq)) for a natural a <= sqrt(densq): one more
\* than the floor from the half on. (A tie goes up here and to the even
\* neighbour in Python; the one tie of the states below, 700 / 1400, is
\* 63.5, which both take to 64.)
RoundedMagnitude(a, densq) ==
  IF LeFrac((2 * ScaledFloor(a, densq) + 1) * (2 * ScaledFloor(a, densq) + 1),
            64516, a * a, densq)
  THEN ScaledFloor(a, densq) + 1
  ELSE ScaledFloor(a, densq)

\* (round(v * 127) + 128) & 0xFF for v = n / sqrt(densq)
RoundedByte(n, densq) ==
  IF n >= 0 THEN (RoundedMagnitude(n, densq) + 128) % 256
  ELSE (128 - RoundedMagnitude(-n, densq)) % 256

\* The byte of the normalized component v taken with the given sign
RoundedStickByte(v, sign) == RoundedByte(sign * v.num, v.densq)

\* C33: bytes 40-43 of a constructed Pad Data packet are round(v * 127) + 128
\* masked to 8 bits, rounded to the nearest integer, v being the normalized
\* component of the stored stick offsets, negated for the Y axes
C33_StickBytesRounded ==
  ev.built # <<>> =>
    LET sticks == ParsedOf(last_state[1]).sticks
    IN  SubSeq(ev.built, 41, 44) =
          <<RoundedStickByte(normalize_stick_pair(sticks.main_x, sticks.main_y), 1),
            RoundedStickByte(normalize_stick_pair(sticks.main_y, sticks.main_x), -1),
            RoundedStickByte(normalize_stick_pair(sticks.c_x, sticks.c_y), 1),
            RoundedStickByte(normalize_stick_pair(sticks.c_y, sticks.c_x), -1)>>

\* The step added one sample to the buffer: one more entry, or the entry
\* that filled it, after which the list was copied for a thread and cleared
AddedOneSample ==
  \/ /\ Size(collector'.samples) = Size(collector.samples) + 1
     /\ collector'.tasks = collector.tasks
  \/ /\ Size(collector.samples) = BLE_CALIBRATION_SAMPLES - 1
     /\ collector'.samples = <<>>
     /\ Len(collector'.tasks) = Len(collector.tasks) + 1

\* C34: on each BLE connection the first 5 decoded reports add no sample to
\* the calibration buffer, and each decoded report after them adds exactly
\* one until the calibration is complete
C34_SkipOnEachConnection ==
  [][link'.decoded = link.decoded + 1
       => IF link.decoded < BLE_CALIBRATION_SKIP
          THEN /\ collector'.samples = collector.samples
               /\ collector'.tasks = collector.tasks
          ELSE ~calibration.calibrated => AddedOneSample]_vars

\* C35: the bytes of a constructed packet are those its inputs alone give:
\* every Pad Data, Pad Info and Version packet built in a reused buffer
\* equals the packet the same construction builds in a buffer of zeros,
\* whatever packet was built in the buffer before
C35_PacketFromInputsOnly ==
  [][/\ (ev'.built # <<>> /\ packet_counter' # packet_counter
           => ev'.built = PadData(last_state[1], pending_presses,
                                  packet_counter).packet)
     /\ (ev'.op = "request" /\ ev'.built = <<>>
           => \A i \in 1..Len(ev'.sends) :
                ev'.sends[i].data =
                  IF MessageType(ev'.data) = PACKET_TYPE_VERSION
                  THEN version_packet(ev'.data, DefaultServerId)
                  ELSE pad_info_packets(ev'.data, DefaultServerId)[i])]_vars

\* The second Pad Data packet of a server, without buttons, in the buffer
\* the first was built in
C35_Witness ==
  /\ ev.built # <<>>
  /\ ev.built = buffers.pad_data
  /\ Slice(ev.built, 36, 40) = Zeros(4)
  /\ built_counters = <<PackU32(<<0, 1>>), PackU32(<<0, 2>>)>>

\* C36: whenever calibration['calibrated'] is True the four centers are set
\* (not None), also while a thread of _apply_calibration is between its
\* assignments, so that a decode that reads calibrated as True finds a
\* center to subtract on every axis
C36_CalibratedHasCenters ==
  calibration.calibrated =>
    /\ calibration.main_x_center # None
    /\ calibration.main_y_center # None
    /\ calibration.c_x_center # None
    /\ calibration.c_y_center # None

\* A calibrated BLE driver that has decoded a report while a second thread
\* of _apply_calibration is between its assignments
C36_Witness ==
  /\ calibration.calibrated
  /\ current_state # None
  /\ \E i \in 1..Len(collector.tasks) : collector.tasks[i].pc \in 1..3

\* C37: an address enters the known clients only as the sender of a Pad Data
\* request of at least 20 bytes with the DSUC magic, so that every known
\* client has sent one; Version requests, Pad Info requests and other
\* datagrams add nobody; an address leaves the known clients only in a step
\* in which a sendto to it failed
C37_ClientsSentPadData ==
  [][/\ \A a \in clients' \ clients :
          /\ ev'.op = "request" /\ ev'.who = a
          /\ Len(ev'.data) >= 20 /\ Slice(ev'.data, 0, 4) = MagicClient
          /\ MessageType(ev'.data) = PACKET_TYPE_PAD_DATA
     /\ \A a \in clients \ clients' :
          \E i \in 1..Len(ev'.sends) : ev'.sends[i].to = a /\ ~ev'.sends[i].ok]_vars

\* A push in which the sendto to one known client failed and that client
\* left, while another client, which had sent a Pad Data request, stays
C37_Witness ==
  /\ ev.op = "timeout"
  /\ clients # {}
  /\ \E i \in 1..Len(ev.sends) : ~ev.sends[i].ok /\ ev.sends[i].to \notin clients
  /\ \E i \in 1..Len(ev.sends) : ev.sends[i].ok /\ ev.sends[i].to \in clients

\* The datagram is shorter than 20 bytes, does not start with DSUC or
\* carries a message type other than the three the server knows
Ignorable(data) ==
  \/ Len(data) < 20
  \/ Slice(data, 0, 4) # MagicClient
  \/ UnpackU32(Slice(data, 16, 20))
       \notin {PACKET_TYPE_VERSION, PACKET_TYPE_PAD_INFO, PACKET_TYPE_PAD_DATA}

\* C38: a datagram shorter than 20 bytes, without the DSUC magic or of an
\* unknown message type gets no reply, and the known clients, the stored
\* state, the pending set and the packet counter are as before it
C38_IgnoredDatagram ==
  [][(ev'.op = "request" /\ Ignorable(ev'.data))
       => /\ ev'.sends = <<>>
          /\ ev'.built = <<>>
          /\ UNCHANGED <<clients, last_state, pending_presses, packet_counter>>]_vars

\* Such a datagram was received by a running server that holds a state and
\* knows its sender as a client
C38_Witness ==
  /\ ev.op = "request"
  /\ Ignorable(ev.data)
  /\ running /\ thread = "recv"
  /\ last_state # None
  /\ pending_presses # {}
  /\ ev.who \in clients

\* C39: once stop() has set running to False the handler thread leaves its
\* loop and terminates, and from the moment stop() has closed the socket and
\* returned, with the thread ended or still inside an iteration, no step
\* passes a packet to a sendto that sends it
C39_StopEndsHandler ==
  /\ (~running ~> thread \in {"ended", "crashed"})
  /\ [][(~running /\ socket = "None" /\ ev' # ev) => ev'.sends = <<>>]_vars

\* stop() returned after its join timed out: the socket is closed while the
\* thread held a packet to send; the packet was not sent and the thread ended
C39_Witness ==
  /\ ~running /\ socket = "None"
  /\ thread = "ended"
  /\ ev.op = "request" /\ ev.built # <<>> /\ ev.sends = <<>>
====
